---- MODULE Spec2Model ----
(***************************************************************************)
(* Model of the synthetic-verdict dataset pipeline:                        *)
(*   llm_manager.py  - the credential pool (model x key rotation)          *)
(*   pipeline.py     - retry_with_backoff, generate_arguments_for_case,    *)
(*                     run_single_case, run_cases_for_section, run_pipeline*)
(*   lawyer.py       - the three generation calls and how they fail        *)
(***************************************************************************)
EXTENDS Integers, Sequences, FiniteSets, TLC

(***************************************************************************)
(* Bounds of the model.                                                    *)
(***************************************************************************)
\* the pool-only specifications draw 1..MaxModels models and 1..MaxKeys keys
MaxModels == 3
MaxKeys == 3
\* pool API calls recorded since initialisation or the last reset (enough
\* for rotate_key to go through every pair of MaxModels x MaxKeys)
MaxCalls == 9
\* set_current_model calls among them
MaxSetCalls == 1
\* the pipeline specification: configured sections, models and keys
MaxSections == 1
PipeMaxModels == 2
PipeMaxKeys == 2
\* failures of the generation service and of the document store
MaxFaults == 1
\* process starts
MaxRuns == 2
MaxWrapped == 2
StoreSections == 2
StoreFaults == 2

ModelNames == <<"A", "B", "C", "D", "E", "F">>
KeyNames == <<"k1", "k2", "k3", "k4", "k5", "k6">>

VARIABLES
    groq_models,      \* llm_manager.groq_models: the configured models, in order
    groq_api_keys,    \* llm_manager.groq_api_keys: the configured keys, in order
    pool,             \* the mutable module state of llm_manager
    calls,            \* history: the pool API calls since initialisation / reset
    last_op           \* history: the last pool API call executed, and for a
                      \* reset what the pool had been through before it

VARIABLES
    ipc_sections,     \* pipeline.ipc_sections: the configured section codes
    db,               \* cases_collection: the documents, indexed by _id
    drv,              \* the frame of run_pipeline
    sch,              \* the frame of run_cases_for_section
    rs,               \* the frame of run_single_case and of its retry wrapper
    ga,               \* the frame of generate_arguments_for_case and of its wrapper
    mem,              \* the case dict handed to generate_arguments_for_case
    budget,           \* failures the environment may still produce
    runs,             \* history: pipeline runs started
    wr,               \* the frame of retry_with_backoff around any one call
    rejected          \* history: per case, the stage whose output was rejected
                      \* and that has had no accepted output since

poolvars == <<groq_models, groq_api_keys, pool, calls, last_op>>
pipevars == <<ipc_sections, db, drv, sch, rs, ga, mem, budget, runs, wr, rejected>>

(***************************************************************************)
(* Helpers for Python lists and itertools.cycle.                           *)
(***************************************************************************)
Range(s) == {s[i] : i \in DOMAIN s}

Without(s, x) == SelectSeq(s, LAMBDA e : e # x)

\* itertools.cycle(list): the list and how many items were taken from it
cycle(s) == [items |-> s, taken |-> 0]

\* next(c) on a non-empty cycle: the value, and the advanced cycle
next_value(c) == c.items[(c.taken % Len(c.items)) + 1]
next_cycle(c) == [c EXCEPT !.taken = @ + 1]

total_keys == Len(groq_api_keys)
total_models == Len(groq_models)

fresh_usage == [total_keys |-> Len(groq_api_keys), keys_used |-> 0, rotations |-> 0]

(***************************************************************************)
(* llm_manager module initialisation (lines 40-60).                        *)
(***************************************************************************)
init_pool ==
    [ available_groq_keys   |-> groq_api_keys,
      available_groq_models |-> groq_models,
      key_cycle             |-> next_cycle(cycle(groq_api_keys)),
      model_cycle           |-> next_cycle(cycle(groq_models)),
      current_groq_key      |-> next_value(cycle(groq_api_keys)),
      current_groq_model    |-> next_value(cycle(groq_models)),
      keys_remaining        |-> Len(groq_api_keys),
      models_remaining      |-> Len(groq_models),
      rotation_count        |-> 0,
      model_key_usage       |-> [m \in Range(groq_models) |-> fresh_usage],
      has_model_keys        |-> FALSE,          \* hasattr(rotate_key, 'model_keys')
      model_keys            |-> << >> ]         \* rotate_key.model_keys

(***************************************************************************)
(* rotate_model (lines 188-225).  Result: the pool after the call, the     *)
(* exception raised ("none" when it returns) and the functions that ran.   *)
(***************************************************************************)
rotate_model_select_first(p) ==
    \* variant: the next model is taken from the list as it was before the
    \* exhausted model was removed from it
    LET exhausted == p.current_groq_model
        avail == Without(p.available_groq_models, exhausted)
        p1 == [p EXCEPT !.rotation_count = @ + 1,
                        !.available_groq_models = avail,
                        !.models_remaining = Len(avail),
                        !.model_key_usage[exhausted].keys_used = total_keys]
    IN  IF avail = << >>
        THEN [pool |-> p1, exc |-> "RuntimeError", ran |-> <<"rotate_model">>]
        ELSE [pool |-> [p1 EXCEPT !.model_cycle = next_cycle(cycle(p.available_groq_models)),
                                  !.current_groq_model = next_value(cycle(p.available_groq_models)),
                                  !.available_groq_keys = groq_api_keys,
                                  !.keys_remaining = Len(groq_api_keys),
                                  !.key_cycle = next_cycle(cycle(groq_api_keys)),
                                  !.current_groq_key = next_value(cycle(groq_api_keys))],
              exc |-> "none", ran |-> <<"rotate_model">>]

rotate_model_stale_keys(p) ==
    \* variant: the key list is not restored for the new model
    LET exhausted == p.current_groq_model
        avail == Without(p.available_groq_models, exhausted)
        keys == p.available_groq_keys
        p1 == [p EXCEPT !.rotation_count = @ + 1,
                        !.available_groq_models = avail,
                        !.models_remaining = Len(avail),
                        !.model_key_usage[exhausted].keys_used = total_keys]
    IN  IF avail = << >>
        THEN [pool |-> p1, exc |-> "RuntimeError", ran |-> <<"rotate_model">>]
        ELSE IF keys = << >>
        THEN [pool |-> [p1 EXCEPT !.model_cycle = next_cycle(cycle(avail)),
                                  !.current_groq_model = next_value(cycle(avail)),
                                  !.key_cycle = cycle(keys)],
              exc |-> "StopIteration", ran |-> <<"rotate_model">>]
        ELSE [pool |-> [p1 EXCEPT !.model_cycle = next_cycle(cycle(avail)),
                                  !.current_groq_model = next_value(cycle(avail)),
                                  !.key_cycle = next_cycle(cycle(keys)),
                                  !.current_groq_key = next_value(cycle(keys))],
              exc |-> "none", ran |-> <<"rotate_model">>]

rotate_model_latest(p) ==
    \* variant: the last of the remaining models is made current
    LET exhausted == p.current_groq_model
        avail == Without(p.available_groq_models, exhausted)
        p1 == [p EXCEPT !.rotation_count = @ + 1,
                        !.available_groq_models = avail,
                        !.models_remaining = Len(avail),
                        !.model_key_usage[exhausted].keys_used = total_keys]
    IN  IF avail = << >>
        THEN [pool |-> p1, exc |-> "RuntimeError", ran |-> <<"rotate_model">>]
        ELSE
        LET newm == avail[Len(avail)]
            visited == p1.has_model_keys /\ newm \in DOMAIN p1.model_keys
            keys == IF visited THEN p1.model_keys[newm] ELSE groq_api_keys
            mk == IF ~visited /\ p1.has_model_keys
                  THEN (newm :> groq_api_keys) @@ p1.model_keys
                  ELSE p1.model_keys
            p2 == [p1 EXCEPT !.model_cycle = next_cycle(cycle(avail)),
                             !.current_groq_model = newm,
                             !.available_groq_keys = keys,
                             !.model_keys = mk,
                             !.keys_remaining = Len(keys),
                             !.key_cycle = cycle(keys)]
        IN  IF keys = << >>
            THEN [pool |-> p2, exc |-> "StopIteration", ran |-> <<"rotate_model">>]
            ELSE [pool |-> [p2 EXCEPT !.key_cycle = next_cycle(cycle(keys)),
                                      !.current_groq_key = next_value(cycle(keys))],
                  exc |-> "none", ran |-> <<"rotate_model">>]

rotate_model(p) ==
    LET exhausted == p.current_groq_model
        avail == Without(p.available_groq_models, exhausted)
        p1 == [p EXCEPT !.rotation_count = @ + 1,
                        !.available_groq_models = avail,
                        !.models_remaining = Len(avail),
                        !.model_key_usage[exhausted].keys_used = total_keys]
    IN  IF avail = << >>
        THEN [pool |-> p1, exc |-> "RuntimeError", ran |-> <<"rotate_model">>]
        ELSE
        LET newm == next_value(cycle(avail))
            visited == p1.has_model_keys /\ newm \in DOMAIN p1.model_keys
            keys == IF visited THEN p1.model_keys[newm] ELSE groq_api_keys
            mk == IF ~visited /\ p1.has_model_keys
                  THEN (newm :> groq_api_keys) @@ p1.model_keys
                  ELSE p1.model_keys
            p2 == [p1 EXCEPT !.model_cycle = next_cycle(cycle(avail)),
                             !.current_groq_model = newm,
                             !.available_groq_keys = keys,
                             !.model_keys = mk,
                             !.keys_remaining = Len(keys),
                             !.key_cycle = cycle(keys)]
        IN  IF keys = << >>
            THEN \* next() on an empty cycle
                 [pool |-> p2, exc |-> "StopIteration", ran |-> <<"rotate_model">>]
            ELSE [pool |-> [p2 EXCEPT !.key_cycle = next_cycle(cycle(keys)),
                                      !.current_groq_key = next_value(cycle(keys))],
                  exc |-> "none", ran |-> <<"rotate_model">>]

(***************************************************************************)
(* rotate_key (lines 147-185).                                             *)
(***************************************************************************)
rotate_key_full_cycle(p) ==
    \* variant: the next key is drawn from a cycle over all configured keys
    LET cur == p.current_groq_model
        exhausted == p.current_groq_key
        mk0 == IF p.has_model_keys /\ cur \in DOMAIN p.model_keys THEN p.model_keys
               ELSE (cur :> groq_api_keys) @@ p.model_keys
        mk1 == [mk0 EXCEPT ![cur] = Without(@, exhausted)]
        p1 == [p EXCEPT !.rotation_count = @ + 1,
                        !.has_model_keys = TRUE,
                        !.model_keys = mk1,
                        !.available_groq_keys = mk1[cur],
                        !.keys_remaining = Len(mk1[cur]),
                        !.model_key_usage[cur].keys_used = @ + 1,
                        !.model_key_usage[cur].rotations = @ + 1]
    IN  IF p1.available_groq_keys = << >>
        THEN [rotate_model(p1) EXCEPT !.ran = <<"rotate_key">> \o @]
        ELSE [pool |-> [p1 EXCEPT !.key_cycle = next_cycle(cycle(groq_api_keys)),
                                  !.current_groq_key = next_value(cycle(groq_api_keys))],
              exc |-> "none", ran |-> <<"rotate_key">>]

rotate_key_global(p) ==
    \* variant: the exhausted key is removed from the list of every model
    LET cur == p.current_groq_model
        exhausted == p.current_groq_key
        mk0 == [m \in Range(groq_models) |->
                   IF p.has_model_keys /\ m \in DOMAIN p.model_keys
                   THEN p.model_keys[m] ELSE groq_api_keys]
        mk1 == [m \in Range(groq_models) |-> Without(mk0[m], exhausted)]
        p1 == [p EXCEPT !.rotation_count = @ + 1,
                        !.has_model_keys = TRUE,
                        !.model_keys = mk1,
                        !.available_groq_keys = mk1[cur],
                        !.keys_remaining = Len(mk1[cur]),
                        !.model_key_usage[cur].keys_used = @ + 1,
                        !.model_key_usage[cur].rotations = @ + 1]
    IN  IF p1.available_groq_keys = << >>
        THEN [rotate_model(p1) EXCEPT !.ran = <<"rotate_key">> \o @]
        ELSE [pool |-> [p1 EXCEPT !.key_cycle = next_cycle(cycle(p1.available_groq_keys)),
                                  !.current_groq_key = next_value(cycle(p1.available_groq_keys))],
              exc |-> "none", ran |-> <<"rotate_key">>]

rotate_key_delegation_uncounted(p) ==
    \* variant: a rotate_key that finds no key left does not count itself
    LET cur == p.current_groq_model
        exhausted == p.current_groq_key
        mk0 == IF p.has_model_keys /\ cur \in DOMAIN p.model_keys THEN p.model_keys
               ELSE (cur :> groq_api_keys) @@ p.model_keys
        mk1 == [mk0 EXCEPT ![cur] = Without(@, exhausted)]
        p1 == [p EXCEPT !.rotation_count = IF mk1[cur] = << >> THEN @ ELSE @ + 1,
                        !.has_model_keys = TRUE,
                        !.model_keys = mk1,
                        !.available_groq_keys = mk1[cur],
                        !.keys_remaining = Len(mk1[cur]),
                        !.model_key_usage[cur].keys_used = @ + 1,
                        !.model_key_usage[cur].rotations = @ + 1]
    IN  IF p1.available_groq_keys = << >>
        THEN [rotate_model(p1) EXCEPT !.ran = <<"rotate_key">> \o @]
        ELSE [pool |-> [p1 EXCEPT !.key_cycle = next_cycle(cycle(p1.available_groq_keys)),
                                  !.current_groq_key = next_value(cycle(p1.available_groq_keys))],
              exc |-> "none", ran |-> <<"rotate_key">>]

rotate_key(p) ==
    LET cur == p.current_groq_model
        exhausted == p.current_groq_key
        mk0 == IF p.has_model_keys /\ cur \in DOMAIN p.model_keys THEN p.model_keys
               ELSE (cur :> groq_api_keys) @@ p.model_keys
        mk1 == [mk0 EXCEPT ![cur] = Without(@, exhausted)]
        p1 == [p EXCEPT !.rotation_count = @ + 1,
                        !.has_model_keys = TRUE,
                        !.model_keys = mk1,
                        !.available_groq_keys = mk1[cur],
                        !.keys_remaining = Len(mk1[cur]),
                        !.model_key_usage[cur].keys_used = @ + 1,
                        !.model_key_usage[cur].rotations = @ + 1]
    IN  IF p1.available_groq_keys = << >>
        THEN [rotate_model(p1) EXCEPT !.ran = <<"rotate_key">> \o @]
        ELSE [pool |-> [p1 EXCEPT !.key_cycle = next_cycle(cycle(p1.available_groq_keys)),
                                  !.current_groq_key = next_value(cycle(p1.available_groq_keys))],
              exc |-> "none", ran |-> <<"rotate_key">>]

(***************************************************************************)
(* reset_rotation_counters (lines 110-145).                                *)
(***************************************************************************)
reset_keeps_tracking(p) ==
    \* variant: the per-model tracking of rotate_key is not deleted
    [ init_pool EXCEPT !.has_model_keys = p.has_model_keys,
                       !.model_keys = p.model_keys ]

reset_rotation_counters(p) ==
    [ available_groq_keys   |-> groq_api_keys,
      available_groq_models |-> groq_models,
      key_cycle             |-> next_cycle(cycle(groq_api_keys)),
      model_cycle           |-> next_cycle(cycle(groq_models)),
      current_groq_key      |-> next_value(cycle(groq_api_keys)),
      current_groq_model    |-> next_value(cycle(groq_models)),
      keys_remaining        |-> Len(groq_api_keys),
      models_remaining      |-> Len(groq_models),
      rotation_count        |-> 0,
      model_key_usage       |-> [m \in Range(groq_models) |-> fresh_usage],
      has_model_keys        |-> FALSE,
      model_keys            |-> << >> ]

set_current_model_readmits(p, model_name) ==
    \* variant: the model set by hand is put back among the usable models
    IF model_name \notin Range(groq_models)
    THEN [pool |-> p, exc |-> "ValueError", ran |-> <<"set_current_model">>]
    ELSE [pool |-> [p EXCEPT !.current_groq_model = model_name,
                             !.available_groq_models =
                                 <<model_name>> \o Without(p.available_groq_models, model_name),
                             !.models_remaining =
                                 Len(Without(p.available_groq_models, model_name)) + 1,
                             !.model_cycle = cycle(<<model_name>> \o
                                   Without(p.available_groq_models, model_name))],
          exc |-> "none", ran |-> <<"set_current_model">>]

(***************************************************************************)
(* set_current_model (lines 71-79).                                        *)
(***************************************************************************)
set_current_model(p, model_name) ==
    IF model_name \notin Range(groq_models)
    THEN [pool |-> p, exc |-> "ValueError", ran |-> <<"set_current_model">>]
    ELSE [pool |-> [p EXCEPT !.current_groq_model = model_name,
                             !.model_cycle = cycle(<<model_name>> \o
                                   Without(p.available_groq_models, model_name))],
          exc |-> "none", ran |-> <<"set_current_model">>]

(***************************************************************************)
(* pipeline.py: program constants.                                         *)
(***************************************************************************)
max_retries == 5            \* retry_with_backoff: attempts per wrapped call
initial_delay == 2          \* retry_with_backoff: first 503 pause
max_retries_per_case == 2   \* run_cases_for_section: immediate tries per case
resolved_target == 3        \* run_cases_for_section: resolved cases per section

(***************************************************************************)
(* Texts the generation service returns (after the <think> block is cut    *)
(* and the text stripped) and the errors it raises.                        *)
(***************************************************************************)
Texts == {"argument", "short", "", "apology", "unable"}

FallbackText == "fallback"   \* the apology returned by lawyer.py on any error

\* the fallback patterns of is_valid_response found in text.lower()
PatternsIn(text) ==
    CASE text = "apology"  -> {"i apologize"}
      [] text = "unable"   -> {"unable to"}
      [] text = "fallback" -> {"i apologize", "unable to", "please try again later"}
      [] OTHER             -> {}

\* len(text) >= 50
IsLong(text) == text \in {"argument", "apology", "unable", "fallback"}

fallback_patterns ==
    {"i apologize", "unable to", "please try again later", "failed after multiple retries"}

is_valid_response_nonempty(text) ==
    \* variant: only the empty text is rejected
    text # ""

is_valid_response(text) ==
    IF text = "" THEN FALSE
    ELSE \A q \in fallback_patterns : q \notin PatternsIn(text)

LLMErrors ==
    {"rate limit: tokens per day", "rate limit: tokens per minute",
     "503 service unavailable", "over capacity", "connection error"}

\* messages with more than one signal, or with a text after "Error code:"
\* that json.loads accepts
JsonErrors ==
    {"rate limit reached, 503 over capacity",
     "rate limit reached. Error code: {\"error\": {\"code\": \"rate_limit_exceeded\"}}",
     "rate limit reached. Error code: {\"error\": \"too many requests\"}",
     "rate limit reached. Error code: 429"}

\* the substrings the retry wrapper looks for, found in str(e).lower()
ErrorTokens(msg) ==
    CASE msg = "rate limit: tokens per day"    -> {"rate limit", "tokens per day"}
      [] msg = "rate limit: tokens per minute" -> {"rate limit"}
      [] msg = "503 service unavailable"       -> {"503"}
      [] msg = "over capacity"                 -> {"over capacity"}
      [] msg = "rate limit reached, 503 over capacity"
                                               -> {"rate limit", "503", "over capacity"}
      [] msg \in JsonErrors \ {"rate limit reached, 503 over capacity"}
                                               -> {"rate limit"}
      [] OTHER                                 -> {}

\* lines 75-79: json.loads of the text after the last "Error code:" (of the
\* whole text when there is none); {} when the text is not JSON.  A value is
\* modelled by its type and, for an object, by its "error" member.
JObject(error) == [type |-> "dict", error |-> error]
JNumber == [type |-> "int", error |-> [type |-> "absent", code |-> ""]]
JAbsent == [type |-> "absent", code |-> ""]

error_json(msg) ==
    CASE msg = "rate limit reached. Error code: {\"error\": {\"code\": \"rate_limit_exceeded\"}}"
              -> JObject([type |-> "dict", code |-> "rate_limit_exceeded"])
      [] msg = "rate limit reached. Error code: {\"error\": \"too many requests\"}"
              -> JObject([type |-> "str", code |-> ""])
      [] msg = "rate limit reached. Error code: 429"
              -> JNumber
      [] OTHER -> JObject(JAbsent)

\* line 83: error_json.get("error", {}).get("code") == "rate_limit_exceeded";
\* only a dict has .get
is_rate_limit_exceeded(j) ==
    IF j.type # "dict" THEN "AttributeError"
    ELSE IF j.error.type = "absent" THEN "False"
    ELSE IF j.error.type # "dict" THEN "AttributeError"
    ELSE IF j.error.code = "rate_limit_exceeded" THEN "True" ELSE "False"

\* line 83: the test for daily token exhaustion (`or` evaluates its right
\* side only when the left one is false)
daily_exhaustion(msg) ==
    IF "tokens per day" \in ErrorTokens(msg) THEN "True"
    ELSE is_rate_limit_exceeded(error_json(msg))

\* an exception raised by the except branch itself leaves the wrapper
HandlerError == [type |-> "AttributeError", msg |-> "object has no attribute 'get'"]

Exc(type, msg) == [type |-> type, msg |-> msg]
NoExc == Exc("none", "")

\* what chain.invoke does: a text, or an error of the service
LLMOutcomes ==
    [kind : {"text"}, text : Texts, err : {""}] \cup
    [kind : {"error"}, text : {""}, err : LLMErrors]

IdealOutcome == [kind |-> "text", text |-> "argument", err |-> ""]

Returns(text) == [kind |-> "return", text |-> text, exc |-> NoExc]
Raises(e) == [kind |-> "raise", text |-> "", exc |-> e]

(***************************************************************************)
(* lawyer.py: the three generation calls.                                  *)
(***************************************************************************)
\* opening_statement (lines 46-71): any exception becomes the fallback text
opening_statement(out) ==
    IF out.kind = "text" THEN Returns(out.text) ELSE Returns(FallbackText)

\* generate_counter_argument (lines 10-43): the same
generate_counter_argument(out) ==
    IF out.kind = "text" THEN Returns(out.text) ELSE Returns(FallbackText)

\* closing_statement (lines 74-118): errors and rejected texts are raised
closing_statement(out) ==
    IF out.kind = "error" THEN Raises(Exc("APIError", out.err))
    ELSE IF out.text = "" \/ ~IsLong(out.text) \/ out.text \in {"apology", "fallback"}
         THEN Raises(Exc("ValueError", "Invalid closing statement response"))
         ELSE Returns(out.text)

(***************************************************************************)
(* retry_with_backoff: the except branch (lines 71-122) for the exception  *)
(* e of attempt number `attempt` (0-based).  Result: whether the wrapped   *)
(* function is tried again or an exception leaves the wrapper, the pool,   *)
(* the delay and the pool functions that ran.                              *)
(***************************************************************************)
Handled(next, e, p, delay, ran) ==
    [next |-> next, exc |-> e, pool |-> p, delay |-> delay, ran |-> ran]

\* variant: the loop has no last attempt
LoopOn_unbounded(attempt, p, delay, ran) == Handled("retry", NoExc, p, delay, ran)

\* `continue`, or the end of an iteration: the loop goes on or runs out
LoopOn(attempt, p, delay, ran) ==
    IF attempt + 1 < max_retries
    THEN Handled("retry", NoExc, p, delay, ran)
    ELSE Handled("raise", Exc("Exception", "Maximum retries exceeded"), p, delay, ran)

PoolError(r) ==
    Exc(r.exc, IF r.exc = "RuntimeError" THEN "All groq_models exhausted" ELSE "")

\* variant: a daily-quota error rotates the key, a short-term one the model
retry_handler_swapped(attempt, delay, e, p) ==
    LET toks == ErrorTokens(e.msg)
    IN  IF "rate limit" \in toks
        THEN LET q == daily_exhaustion(e.msg)
                 r == IF q = "True" THEN rotate_key(p) ELSE rotate_model(p)
             IN  IF q = "AttributeError"
                 THEN Handled("raise", HandlerError, p, delay, << >>)
                 ELSE IF r.exc # "none"
                 THEN Handled("raise", PoolError(r), r.pool, delay, r.ran)
                 ELSE LoopOn(attempt, r.pool, delay, r.ran)
        ELSE IF "503" \in toks \/ "over capacity" \in toks
        THEN IF attempt >= 2
             THEN LET r == rotate_key(p)
                  IN  IF r.exc # "none"
                      THEN Handled("raise", PoolError(r), r.pool, delay * 2, r.ran)
                      ELSE IF attempt = max_retries - 1
                           THEN Handled("raise", e, r.pool, delay * 2, r.ran)
                           ELSE LoopOn(attempt, r.pool, delay * 2, r.ran)
             ELSE LoopOn(attempt, p, delay * 2, << >>)
        ELSE IF attempt < max_retries - 1
             THEN LET r == rotate_key(p)
                  IN  IF r.exc # "none"
                      THEN Handled("raise", PoolError(r), r.pool, delay, r.ran)
                      ELSE LoopOn(attempt, r.pool, delay, r.ran)
             ELSE Handled("raise", e, p, delay, << >>)

\* variant: a 503 rotates the key from the second attempt on
retry_handler_early_rotation(attempt, delay, e, p) ==
    LET toks == ErrorTokens(e.msg)
    IN  IF "rate limit" \in toks
        THEN LET q == daily_exhaustion(e.msg)
                 r == IF q = "True" THEN rotate_model(p) ELSE rotate_key(p)
             IN  IF q = "AttributeError"
                 THEN Handled("raise", HandlerError, p, delay, << >>)
                 ELSE IF r.exc # "none"
                 THEN Handled("raise", PoolError(r), r.pool, delay, r.ran)
                 ELSE LoopOn(attempt, r.pool, delay, r.ran)
        ELSE IF "503" \in toks \/ "over capacity" \in toks
        THEN IF attempt >= 1
             THEN LET r == rotate_key(p)
                  IN  IF r.exc # "none"
                      THEN Handled("raise", PoolError(r), r.pool, delay * 2, r.ran)
                      ELSE IF attempt = max_retries - 1
                           THEN Handled("raise", e, r.pool, delay * 2, r.ran)
                           ELSE LoopOn(attempt, r.pool, delay * 2, r.ran)
             ELSE LoopOn(attempt, p, delay * 2, << >>)
        ELSE IF attempt < max_retries - 1
             THEN LET r == rotate_key(p)
                  IN  IF r.exc # "none"
                      THEN Handled("raise", PoolError(r), r.pool, delay, r.ran)
                      ELSE LoopOn(attempt, r.pool, delay, r.ran)
             ELSE Handled("raise", e, p, delay, << >>)

retry_handler(attempt, delay, e, p) ==
    LET toks == ErrorTokens(e.msg)
    IN  IF "rate limit" \in toks
        THEN LET q == daily_exhaustion(e.msg)
                 r == IF q = "True" THEN rotate_model(p) ELSE rotate_key(p)
             IN  IF q = "AttributeError"
                 THEN Handled("raise", HandlerError, p, delay, << >>)
                 ELSE IF r.exc # "none"
                 THEN Handled("raise", PoolError(r), r.pool, delay, r.ran)
                 ELSE LoopOn(attempt, r.pool, delay, r.ran)
        ELSE IF "503" \in toks \/ "over capacity" \in toks
        THEN IF attempt >= 2
             THEN LET r == rotate_key(p)
                  IN  IF r.exc # "none"
                      THEN Handled("raise", PoolError(r), r.pool, delay * 2, r.ran)
                      ELSE IF attempt = max_retries - 1
                           THEN Handled("raise", e, r.pool, delay * 2, r.ran)
                           ELSE LoopOn(attempt, r.pool, delay * 2, r.ran)
             ELSE LoopOn(attempt, p, delay * 2, << >>)
        ELSE IF attempt < max_retries - 1
             THEN LET r == rotate_key(p)
                  IN  IF r.exc # "none"
                      THEN Handled("raise", PoolError(r), r.pool, delay, r.ran)
                      ELSE LoopOn(attempt, r.pool, delay, r.ran)
             ELSE Handled("raise", e, p, delay, << >>)

(***************************************************************************)
(* The document store.                                                     *)
(***************************************************************************)
\* a document as run_single_case inserts it (lines 264-273): no argument fields
NewDoc(section) ==
    [section |-> section, status |-> "details-only", has_args |-> FALSE,
     plaintiff_arguments |-> << >>, defendant_arguments |-> << >>]

\* variant: the $set leaves the defendant list out
save_progress_one_list(database, case_id, plaintiff_args, defendant_args, status, ok) ==
    IF ok
    THEN [database EXCEPT ![case_id] =
             [@ EXCEPT !.has_args = TRUE,
                       !.plaintiff_arguments = plaintiff_args,
                       !.status = status]]
    ELSE database

save_progress_if_in_step(database, case_id, plaintiff_args, defendant_args, status, ok) ==
    \* variant: the update applies only to a document that is at most one
    \* statement behind the lists written
    IF ok /\ Len(plaintiff_args) + Len(defendant_args)
                <= Len(database[case_id].plaintiff_arguments)
                   + Len(database[case_id].defendant_arguments) + 1
    THEN [database EXCEPT ![case_id] =
             [@ EXCEPT !.has_args = TRUE,
                       !.plaintiff_arguments = plaintiff_args,
                       !.defendant_arguments = defendant_args,
                       !.status = status]]
    ELSE database

\* save_progress (lines 137-150): one $set of both lists and the status; a
\* PyMongoError is printed and swallowed
save_progress(database, case_id, plaintiff_args, defendant_args, status, ok) ==
    IF ok
    THEN [database EXCEPT ![case_id] =
             [@ EXCEPT !.has_args = TRUE,
                       !.plaintiff_arguments = plaintiff_args,
                       !.defendant_arguments = defendant_args,
                       !.status = status]]
    ELSE database

\* find / count_documents by section and status
IdsWhere(database, section, statuses) ==
    SelectSeq([i \in 1..Len(database) |-> i],
              LAMBDA i : database[i].section = section /\ database[i].status \in statuses)

count_documents(database, section, statuses) == Len(IdsWhere(database, section, statuses))

\* the dict of a document as find returns it
CaseDict(database, case_id) ==
    [id |-> case_id, has_args |-> database[case_id].has_args,
     plaintiff_arguments |-> database[case_id].plaintiff_arguments,
     defendant_arguments |-> database[case_id].defendant_arguments]

\* case_data of run_single_case after insert_one
NewCaseDict(case_id) ==
    [id |-> case_id, has_args |-> FALSE,
     plaintiff_arguments |-> << >>, defendant_arguments |-> << >>]

NoDict == [id |-> 0, has_args |-> FALSE,
           plaintiff_arguments |-> << >>, defendant_arguments |-> << >>]

\* variant: the defendant closing is generated whatever the length of the list
AtCloseD_unguarded(p, d) == "close_d"

(***************************************************************************)
(* generate_arguments_for_case: where the body goes next.  Each stage is   *)
(* guarded by the lengths of the two lists (lines 166, 176, 188, 223, 234).*)
(***************************************************************************)
AtCloseD(p, d) == IF Len(d) < 4 THEN "close_d" ELSE "mark"
AtCloseP(p, d) == IF Len(p) < 4 THEN "close_p" ELSE AtCloseD(p, d)
AtLoop(p, d)   == IF Len(p) < 3 THEN "round_p" ELSE AtCloseP(p, d)
\* variant: the defendant opening guarded by the plaintiff list
AtOpenD_plaintiff_guard(p, d) == IF Len(p) = 0 THEN "open_d" ELSE AtLoop(p, d)
AtOpenD(p, d)  == IF Len(d) = 0 THEN "open_d" ELSE AtLoop(p, d)
AtOpenP(p, d)  == IF Len(p) = 0 THEN "open_p" ELSE AtOpenD(p, d)

\* the statement after the stage at `loc` was accepted
AfterStage(loc, p, d) ==
    CASE loc = "open_p"  -> AtOpenD(p, d)
      [] loc = "open_d"  -> AtLoop(p, d)
      [] loc = "round_p" -> "round_d"
      [] loc = "round_d" -> AtLoop(p, d)
      [] loc = "close_p" -> AtCloseD(p, d)
      [] loc = "close_d" -> "mark"

Statement(stage, round, text) == [stage |-> stage, round |-> round, text |-> text]

\* no stage of the case waits for an accepted output
NoStage == [stage |-> "", round |-> 0]

IdleGA ==
    [pc |-> "idle", caller |-> "", attempt |-> 0, delay |-> initial_delay,
     plaintiff_args |-> << >>, defendant_args |-> << >>, history |-> << >>,
     round_num |-> 0, exc |-> NoExc, out |-> "", log |-> << >>,
     start |-> [p |-> << >>, d |-> << >>, doc_p |-> << >>, doc_d |-> << >>],
     rotated |-> << >>]

\* lines 155-163: the body starts (again): it reads the two lists of the dict,
\* or takes two new empty lists when the dict has no such keys
EnterBody(g, dict, database) ==
    LET p == IF dict.has_args THEN dict.plaintiff_arguments ELSE << >>
        d == IF dict.has_args THEN dict.defendant_arguments ELSE << >>
    IN  [g EXCEPT !.pc = AtOpenP(p, d),
                  !.plaintiff_args = p, !.defendant_args = d,
                  !.history = IF AtOpenP(p, d) \in {"open_p", "open_d"}
                              THEN << >> ELSE p \o d,
                  !.round_num = 0,
                  !.exc = NoExc, !.out = "", !.log = << >>,
                  !.start = [p |-> p, d |-> d,
                             doc_p |-> database[dict.id].plaintiff_arguments,
                             doc_d |-> database[dict.id].defendant_arguments]]

\* the wrapper is called: attempt 0
CallGA(caller, dict, database) ==
    EnterBody([IdleGA EXCEPT !.caller = caller], dict, database)

\* the frames of the pipeline with no call in progress
IdleRS == [pc |-> "idle", attempt |-> 0, delay |-> initial_delay,
           section |-> 0, exc |-> NoExc, rotated |-> << >>]

IdleSch ==
    [pc |-> "idle", section |-> 0, details_only |-> << >>, in_progress |-> << >>,
     list |-> 1, k |-> 1, success |-> FALSE, retries |-> 0, waiting |-> FALSE,
     did_work |-> FALSE, resolved_count |-> 0, i |-> 0,
     inserted |-> 0, budget0 |-> 0, aborted |-> FALSE,
     status0 |-> << >>, order |-> << >>, invoked |-> {},
     handed |-> << >>, results |-> << >>]

\* history of a pass: the kinds of work in the order the pass takes them up
\* ("details-only", "in-progress": an invocation on a case that had this
\* status when the pass began; "new": an insertion), and the cases invoked;
\* handed, results: the existing cases in the order of their invocations,
\* and how each invocation ended ("True", "False", "raised")
Visit(s, kind) ==
    [s EXCEPT !.order = IF @ # << >> /\ @[Len(@)] = kind THEN @ ELSE Append(@, kind)]

\* processed, count0: history of a run, the sections handed to
\* run_cases_for_section so far and the incomplete cases of every section
\* when the run began
IdleDrv == [pc |-> "idle", order |-> << >>, k |-> 1,
            processed |-> << >>, count0 |-> << >>]

\* retry_with_backoff.wrapper (lines 66-123) with no call in progress.
\* History fields: executions of the wrapped function, the (model, key) pair
\* of each, the error of the last failed attempt, its attempt number, the
\* usable models other than the current one when it failed, and the pool
\* functions its except branch called.
IdleWr ==
    [pc |-> "idle", attempt |-> 0, delay |-> initial_delay, exc |-> NoExc,
     executions |-> 0, pairs |-> << >>, last |-> NoExc, failed |-> 0,
     others |-> 0, ran |-> << >>, n |-> 0]

(***************************************************************************)
(* The pool API as actions (the calls of test_rotation.py and of           *)
(* verdict_generation.py), with the history of calls.                      *)
(***************************************************************************)
Raised(name) == \E i \in DOMAIN calls : calls[i].exc = name
Called(name) == \E i \in DOMAIN calls : calls[i].op = name

LastOp(name) == [op |-> name, raised |-> FALSE, set |-> FALSE, tracked |-> FALSE]

Call(op, arg, r) ==
    [op |-> op, arg |-> arg, exc |-> r.exc, ran |-> r.ran,
     model |-> r.pool.current_groq_model, key |-> r.pool.current_groq_key]

PoolInit ==
    /\ \E nm \in 1..MaxModels : groq_models = SubSeq(ModelNames, 1, nm)
    /\ \E nk \in 1..MaxKeys : groq_api_keys = SubSeq(KeyNames, 1, nk)
    /\ pool = init_pool
    /\ calls = << >>
    /\ last_op = LastOp("init")
    /\ ipc_sections = << >>
    /\ db = << >>
    /\ budget = 0
    /\ drv = IdleDrv
    /\ sch = IdleSch
    /\ rs = IdleRS
    /\ ga = IdleGA
    /\ mem = NoDict
    /\ runs = 0
    /\ wr = IdleWr
    /\ rejected = << >>

RotateKey ==
    /\ Len(calls) < MaxCalls
    /\ LET r == rotate_key(pool)
       IN  /\ pool' = r.pool
           /\ calls' = Append(calls, Call("rotate_key", "", r))
    /\ last_op' = LastOp("rotate_key")
    /\ UNCHANGED <<groq_models, groq_api_keys, pipevars>>

RotateModel ==
    /\ Len(calls) < MaxCalls
    /\ LET r == rotate_model(pool)
       IN  /\ pool' = r.pool
           /\ calls' = Append(calls, Call("rotate_model", "", r))
    /\ last_op' = LastOp("rotate_model")
    /\ UNCHANGED <<groq_models, groq_api_keys, pipevars>>

ResetRotationCounters ==
    /\ pool' = reset_rotation_counters(pool)
    /\ calls' = << >>
    /\ last_op' = [op |-> "reset_rotation_counters",
                    raised |-> Raised("RuntimeError"),
                    set |-> Called("set_current_model"),
                    tracked |-> pool.has_model_keys]
    /\ UNCHANGED <<groq_models, groq_api_keys, pipevars>>

SetCalls == Len(SelectSeq(calls, LAMBDA c : c.op = "set_current_model"))

SetCurrentModel ==
    /\ Len(calls) < MaxCalls
    /\ SetCalls < MaxSetCalls
    /\ \E name \in Range(groq_models) \cup {"unconfigured"} :
         LET r == set_current_model(pool, name)
         IN  /\ pool' = r.pool
             /\ calls' = Append(calls, Call("set_current_model", name, r))
    /\ last_op' = LastOp("set_current_model")
    /\ UNCHANGED <<groq_models, groq_api_keys, pipevars>>

vars == <<poolvars, pipevars>>

\* the rotation calls and reset only
NextRotation == RotateKey \/ RotateModel \/ ResetRotationCounters
SpecRotation == PoolInit /\ [][NextRotation]_vars

\* the whole pool API
NextPool == RotateKey \/ RotateModel \/ ResetRotationCounters \/ SetCurrentModel
SpecPool == PoolInit /\ [][NextPool]_vars

(***************************************************************************)
(* generate_arguments_for_case (lines 153-252), one action per generation  *)
(* call.  GenStep is what every stage does with the result r of its call:  *)
(* append and save_progress, return False, or let the exception through.   *)
(***************************************************************************)
PlaintiffLocs == {"open_p", "round_p", "close_p"}
OpeningLocs == {"open_p", "open_d"}

StageOf(loc) ==
    CASE loc \in OpeningLocs -> "opening"
      [] loc = "round_p"     -> "argument"
      [] loc = "round_d"     -> "counter"
      [] OTHER               -> "closing"

Cost(out, ok) == (IF out = IdealOutcome THEN 0 ELSE 1) + (IF ok THEN 0 ELSE 1)

Accepted(r) == r.kind = "return" /\ r.text # "" /\ is_valid_response(r.text)

\* variant: the lists are written also when the output is rejected
GenStep_saves_rejected(loc, out, r, ok) ==
    LET rn == IF loc = "round_p" THEN Len(ga.plaintiff_args)
              ELSE IF loc = "round_d" THEN ga.round_num ELSE 0
        entry == [stage |-> loc, round |-> rn,
                  model |-> pool.current_groq_model, key |-> pool.current_groq_key,
                  saved |-> IF ~Accepted(r) THEN "none"
                            ELSE IF ok THEN "yes" ELSE "failed"]
        g0 == [ga EXCEPT !.log = Append(@, entry), !.round_num = rn]
        this == [stage |-> loc, round |-> rn]
        stmt == Statement(StageOf(loc), rn, r.text)
        p1 == IF loc \in PlaintiffLocs THEN Append(ga.plaintiff_args, stmt)
              ELSE ga.plaintiff_args
        d1 == IF loc \in PlaintiffLocs THEN ga.defendant_args
              ELSE Append(ga.defendant_args, stmt)
        nxt == AfterStage(loc, p1, d1)
        h1 == IF loc \in OpeningLocs
              THEN (IF nxt \in OpeningLocs THEN << >> ELSE p1 \o d1)
              ELSE Append(ga.history, stmt)
    IN  /\ ga.pc = loc
        /\ Cost(out, ok) <= budget
        /\ ok \/ Accepted(r)
        /\ budget' = budget - Cost(out, ok)
        /\ IF r.kind = "raise"
           THEN /\ ga' = [g0 EXCEPT !.pc = "raised", !.exc = r.exc]
                /\ UNCHANGED <<db, mem, rejected>>
           ELSE IF Accepted(r)
           THEN /\ ga' = [g0 EXCEPT !.plaintiff_args = p1, !.defendant_args = d1,
                                    !.history = h1, !.pc = nxt]
                /\ mem' = IF mem.has_args
                          THEN [mem EXCEPT !.plaintiff_arguments = p1,
                                           !.defendant_arguments = d1]
                          ELSE mem
                /\ db' = save_progress(db, mem.id, p1, d1, "in-progress", ok)
                /\ rejected' = [rejected EXCEPT ![mem.id] = IF @ = this THEN NoStage ELSE @]
           ELSE /\ ga' = [g0 EXCEPT !.pc = "done", !.out = "False"]
                /\ rejected' = [rejected EXCEPT ![mem.id] = this]
                /\ db' = save_progress(db, mem.id, ga.plaintiff_args,
                                       ga.defendant_args, "in-progress", ok)
                /\ UNCHANGED mem
        /\ UNCHANGED <<wr, poolvars, ipc_sections, drv, sch, rs, runs>>

GenStep(loc, out, r, ok) ==
    LET rn == IF loc = "round_p" THEN Len(ga.plaintiff_args)
              ELSE IF loc = "round_d" THEN ga.round_num ELSE 0
        entry == [stage |-> loc, round |-> rn,
                  model |-> pool.current_groq_model, key |-> pool.current_groq_key,
                  saved |-> IF ~Accepted(r) THEN "none"
                            ELSE IF ok THEN "yes" ELSE "failed"]
        g0 == [ga EXCEPT !.log = Append(@, entry), !.round_num = rn]
        this == [stage |-> loc, round |-> rn]
        stmt == Statement(StageOf(loc), rn, r.text)
        p1 == IF loc \in PlaintiffLocs THEN Append(ga.plaintiff_args, stmt)
              ELSE ga.plaintiff_args
        d1 == IF loc \in PlaintiffLocs THEN ga.defendant_args
              ELSE Append(ga.defendant_args, stmt)
        nxt == AfterStage(loc, p1, d1)
        h1 == IF loc \in OpeningLocs
              THEN (IF nxt \in OpeningLocs THEN << >> ELSE p1 \o d1)
              ELSE Append(ga.history, stmt)
    IN  /\ ga.pc = loc
        /\ Cost(out, ok) <= budget
        /\ ok \/ Accepted(r)
        /\ budget' = budget - Cost(out, ok)
        /\ IF r.kind = "raise"
           THEN /\ ga' = [g0 EXCEPT !.pc = "raised", !.exc = r.exc]
                /\ UNCHANGED <<db, mem, rejected>>
           ELSE IF Accepted(r)
           THEN /\ ga' = [g0 EXCEPT !.plaintiff_args = p1, !.defendant_args = d1,
                                    !.history = h1, !.pc = nxt]
                /\ mem' = IF mem.has_args
                          THEN [mem EXCEPT !.plaintiff_arguments = p1,
                                           !.defendant_arguments = d1]
                          ELSE mem
                /\ db' = save_progress(db, mem.id, p1, d1, "in-progress", ok)
                /\ rejected' = [rejected EXCEPT ![mem.id] = IF @ = this THEN NoStage ELSE @]
           ELSE /\ ga' = [g0 EXCEPT !.pc = "done", !.out = "False"]
                /\ rejected' = [rejected EXCEPT ![mem.id] = this]
                /\ UNCHANGED <<db, mem>>
        /\ UNCHANGED <<wr, poolvars, ipc_sections, drv, sch, rs, runs>>

\* lines 166-174
PlaintiffOpening ==
    \E out \in LLMOutcomes, ok \in BOOLEAN :
        GenStep("open_p", out, opening_statement(out), ok)

\* lines 176-184
DefendantOpening ==
    \E out \in LLMOutcomes, ok \in BOOLEAN :
        GenStep("open_d", out, opening_statement(out), ok)

\* lines 188-204
PlaintiffArgument ==
    \E out \in LLMOutcomes, ok \in BOOLEAN :
        GenStep("round_p", out, generate_counter_argument(out), ok)

\* lines 206-220
DefendantCounter ==
    \E out \in LLMOutcomes, ok \in BOOLEAN :
        GenStep("round_d", out, generate_counter_argument(out), ok)

\* lines 223-232
PlaintiffClosing ==
    \E out \in LLMOutcomes, ok \in BOOLEAN :
        GenStep("close_p", out, closing_statement(out), ok)

\* lines 234-243
DefendantClosing ==
    \E out \in LLMOutcomes, ok \in BOOLEAN :
        GenStep("close_d", out, closing_statement(out), ok)

\* variant: the status is written without the check of line 246
MarkResolved_unchecked ==
    /\ ga.pc = "mark"
    /\ \E ok \in BOOLEAN :
        /\ Cost(IdealOutcome, ok) <= budget
        /\ budget' = budget - Cost(IdealOutcome, ok)
        /\ db' = save_progress(db, mem.id, ga.plaintiff_args,
                               ga.defendant_args, "resolved", ok)
        /\ ga' = [ga EXCEPT !.pc = "done", !.out = "True"]
    /\ UNCHANGED <<wr, rejected, poolvars, ipc_sections, drv, sch, rs, mem, runs>>

\* lines 245-252
MarkResolved ==
    /\ ga.pc = "mark"
    /\ \E ok \in BOOLEAN :
        /\ Cost(IdealOutcome, ok) <= budget
        /\ budget' = budget - Cost(IdealOutcome, ok)
        /\ IF Len(ga.plaintiff_args) = 4 /\ Len(ga.defendant_args) = 4
           THEN /\ db' = save_progress(db, mem.id, ga.plaintiff_args,
                                       ga.defendant_args, "resolved", ok)
                /\ ga' = [ga EXCEPT !.pc = "done", !.out = "True"]
           ELSE /\ ok
                /\ db' = db
                /\ ga' = [ga EXCEPT !.pc = "done", !.out = "False"]
    /\ UNCHANGED <<wr, rejected, poolvars, ipc_sections, drv, sch, rs, mem, runs>>

\* variant: a False result is retried like an exception
RetryArguments_retries_false ==
    /\ ga.pc = "raised" \/ (ga.pc = "done" /\ ga.out = "False")
    /\ LET e == IF ga.pc = "raised" THEN ga.exc ELSE Exc("ValueError", "invalid response")
           h == retry_handler(ga.attempt, ga.delay, e, pool)
       IN  /\ pool' = h.pool
           /\ ga' = IF h.next = "retry"
                    THEN EnterBody([ga EXCEPT !.attempt = @ + 1, !.delay = h.delay,
                                              !.rotated = h.ran], mem, db)
                    ELSE [ga EXCEPT !.pc = "failed", !.exc = h.exc,
                                    !.delay = h.delay, !.rotated = h.ran]
    /\ UNCHANGED <<wr, rejected, groq_models, groq_api_keys, calls, last_op,
                   ipc_sections, db, drv, sch, rs, mem, budget, runs>>

\* retry_with_backoff around generate_arguments_for_case: the except branch,
\* and the next attempt entering the body again with the same dict
RetryArguments ==
    /\ ga.pc = "raised"
    /\ LET h == retry_handler(ga.attempt, ga.delay, ga.exc, pool)
       IN  /\ pool' = h.pool
           /\ ga' = IF h.next = "retry"
                    THEN EnterBody([ga EXCEPT !.attempt = @ + 1, !.delay = h.delay,
                                              !.rotated = h.ran], mem, db)
                    ELSE [ga EXCEPT !.pc = "failed", !.exc = h.exc,
                                    !.delay = h.delay, !.rotated = h.ran]
    /\ UNCHANGED <<wr, rejected, groq_models, groq_api_keys, calls, last_op,
                   ipc_sections, db, drv, sch, rs, mem, budget, runs>>

(***************************************************************************)
(* run_single_case (lines 255-284) and its retry wrapper.                  *)
(***************************************************************************)
\* lines 256-281: generate_case, insert_one, then the arguments
RunSingleCase ==
    /\ rs.pc = "start"
    /\ \E content \in {"case", "none"}, ok \in BOOLEAN :
        LET cost == (IF content = "case" THEN 0 ELSE 1) + (IF ok THEN 0 ELSE 1)
            case_id == Len(db) + 1
            case_data == NewCaseDict(case_id)
            db1 == Append(db, NewDoc(rs.section))
        IN  /\ cost <= budget
            /\ ok \/ content = "case"
            /\ budget' = budget - cost
            /\ IF content = "none"
               THEN /\ rs' = [rs EXCEPT !.pc = "raised",
                                        !.exc = Exc("ValueError", "Failed to generate case")]
                    /\ UNCHANGED <<db, mem, ga, rejected>>
               ELSE IF ~ok
               THEN /\ rs' = [rs EXCEPT !.pc = "raised",
                                        !.exc = Exc("PyMongoError", "insert failed")]
                    /\ UNCHANGED <<db, mem, ga, rejected>>
               ELSE /\ db' = db1
                    /\ rejected' = Append(rejected, NoStage)
                    /\ mem' = case_data
                    /\ ga' = CallGA("rs", case_data, db1)
                    /\ rs' = [rs EXCEPT !.pc = "arguments"]
            /\ sch' = IF content = "case" /\ ok
                      THEN [Visit(sch, "new") EXCEPT !.inserted = @ + 1]
                      ELSE sch
    /\ UNCHANGED <<wr, poolvars, ipc_sections, drv, runs>>

\* lines 281-284: the result of generate_arguments_for_case
SingleCaseReturned ==
    /\ rs.pc = "arguments"
    /\ ga.caller = "rs"
    /\ ga.pc \in {"done", "failed"}
    /\ rs' = IF ga.pc = "failed"
             THEN [rs EXCEPT !.pc = "raised", !.exc = ga.exc]
             ELSE IF ga.out = "True"
             THEN [rs EXCEPT !.pc = "done"]
             ELSE [rs EXCEPT !.pc = "raised",
                             !.exc = Exc("ValueError", "Failed to generate arguments for case")]
    /\ ga' = IdleGA
    /\ mem' = NoDict
    /\ UNCHANGED <<wr, rejected, poolvars, ipc_sections, db, drv, sch, budget, runs>>

\* retry_with_backoff around run_single_case: the except branch
RetrySingleCase ==
    /\ rs.pc = "raised"
    /\ LET h == retry_handler(rs.attempt, rs.delay, rs.exc, pool)
       IN  /\ pool' = h.pool
           /\ rs' = IF h.next = "retry"
                    THEN [rs EXCEPT !.pc = "start", !.attempt = @ + 1, !.delay = h.delay,
                                    !.exc = NoExc, !.rotated = h.ran]
                    ELSE [rs EXCEPT !.pc = "failed", !.exc = h.exc,
                                    !.delay = h.delay, !.rotated = h.ran]
    /\ UNCHANGED <<wr, rejected, groq_models, groq_api_keys, calls, last_op,
                   ipc_sections, db, drv, sch, ga, mem, budget, runs>>

(***************************************************************************)
(* run_cases_for_section (lines 287-393).                                  *)
(***************************************************************************)
CurrentList(s) == IF s.list = 1 THEN s.details_only ELSE s.in_progress

\* the for loops of lines 301 and 334 move on: the next case of the list, the
\* in-progress list after the details-only list, then line 366
Settle(s) ==
    IF s.list = 1 /\ s.k <= Len(s.details_only) THEN s
    ELSE IF s.list = 1
    THEN IF s.in_progress # << >> THEN [s EXCEPT !.list = 2, !.k = 1]
         ELSE [s EXCEPT !.pc = "recount"]
    ELSE IF s.k <= Len(s.in_progress) THEN s
    ELSE [s EXCEPT !.pc = "recount"]

\* variant: the two lists are filtered by each other's status
StartSection_swapped ==
    /\ drv.pc = "running"
    /\ sch.pc = "idle"
    /\ drv.k <= Len(drv.order)
    /\ LET section == drv.order[drv.k]
       IN  /\ sch' = Settle([IdleSch EXCEPT
                     !.pc = "existing", !.section = section,
                     !.details_only = IdsWhere(db, section, {"in-progress"}),
                     !.in_progress = IdsWhere(db, section, {"details-only"}),
                     !.budget0 = budget,
                     !.status0 = [i \in 1..Len(db) |-> db[i].status]])
           /\ drv' = [drv EXCEPT !.processed = Append(@, section)]
    /\ UNCHANGED <<wr, rejected, poolvars, ipc_sections, db, rs, ga, mem, budget, runs>>

\* lines 289-297, called from run_pipeline (lines 418, 425)
StartSection ==
    /\ drv.pc = "running"
    /\ sch.pc = "idle"
    /\ drv.k <= Len(drv.order)
    /\ LET section == drv.order[drv.k]
       IN  /\ sch' = Settle([IdleSch EXCEPT
                     !.pc = "existing", !.section = section,
                     !.details_only = IdsWhere(db, section, {"details-only"}),
                     !.in_progress = IdsWhere(db, section, {"in-progress"}),
                     !.budget0 = budget,
                     !.status0 = [i \in 1..Len(db) |-> db[i].status]])
           /\ drv' = [drv EXCEPT !.processed = Append(@, section)]
    /\ UNCHANGED <<wr, rejected, poolvars, ipc_sections, db, rs, ga, mem, budget, runs>>

\* lines 306-309 and 339-342: the case is handed to the wrapped stage engine;
\* an immediate retry hands over the same dict
ProcessExisting ==
    /\ sch.pc = "existing"
    /\ ~sch.waiting
    /\ LET case_id == CurrentList(sch)[sch.k]
           case == IF sch.retries = 0 THEN CaseDict(db, case_id) ELSE mem
       IN  /\ mem' = case
           /\ ga' = CallGA("sched", case, db)
           /\ sch' = [Visit(sch, sch.status0[case_id])
                        EXCEPT !.waiting = TRUE, !.invoked = @ \cup {case_id},
                               !.handed = Append(@, case_id)]
    /\ UNCHANGED <<wr, rejected, poolvars, ipc_sections, db, drv, rs, budget, runs>>

\* variant: a case that failed on all its retries ends the pass
ExistingReturned_breaks ==
    /\ sch.pc = "existing"
    /\ sch.waiting
    /\ ga.caller = "sched"
    /\ ga.pc \in {"done", "failed"}
    /\ LET s0 == [sch EXCEPT !.waiting = FALSE,
                             !.results = Append(@, IF ga.pc = "done" THEN ga.out
                                                   ELSE "raised")]
           s1 == IF ga.pc = "done"
                 THEN IF ga.out = "True"
                      THEN [s0 EXCEPT !.success = TRUE, !.did_work = TRUE]
                      ELSE [s0 EXCEPT !.did_work = TRUE, !.retries = @ + 1]
                 ELSE IF ga.exc.type = "SystemExit"
                      THEN [s0 EXCEPT !.aborted = TRUE, !.pc = "raised"]
                      ELSE [s0 EXCEPT !.retries = @ + 1]
           again == s1.pc = "existing" /\ ~s1.success /\ s1.retries < max_retries_per_case
       IN  /\ sch' = IF again \/ s1.pc # "existing" THEN s1
                     ELSE IF ~s1.success THEN [s1 EXCEPT !.pc = "end"]
                     ELSE Settle([s1 EXCEPT !.k = @ + 1, !.success = FALSE, !.retries = 0])
           /\ mem' = IF again THEN mem ELSE NoDict
           /\ drv' = IF s1.pc = "raised" THEN [drv EXCEPT !.pc = "aborted"] ELSE drv
    /\ ga' = IdleGA
    /\ UNCHANGED <<wr, rejected, poolvars, ipc_sections, db, rs, budget, runs>>

\* variant: the retry loop runs while retries <= max_retries_per_case
ExistingReturned_one_more ==
    /\ sch.pc = "existing"
    /\ sch.waiting
    /\ ga.caller = "sched"
    /\ ga.pc \in {"done", "failed"}
    /\ LET s0 == [sch EXCEPT !.waiting = FALSE,
                             !.results = Append(@, IF ga.pc = "done" THEN ga.out
                                                   ELSE "raised")]
           s1 == IF ga.pc = "done"
                 THEN IF ga.out = "True"
                      THEN [s0 EXCEPT !.success = TRUE, !.did_work = TRUE]
                      ELSE [s0 EXCEPT !.did_work = TRUE, !.retries = @ + 1]
                 ELSE IF ga.exc.type = "SystemExit"
                      THEN [s0 EXCEPT !.aborted = TRUE, !.pc = "raised"]
                      ELSE [s0 EXCEPT !.retries = @ + 1]
           again == s1.pc = "existing" /\ ~s1.success /\ s1.retries <= max_retries_per_case
       IN  /\ sch' = IF again \/ s1.pc # "existing" THEN s1
                     ELSE Settle([s1 EXCEPT !.k = @ + 1, !.success = FALSE, !.retries = 0])
           /\ mem' = IF again THEN mem ELSE NoDict
           /\ drv' = IF s1.pc = "raised" THEN [drv EXCEPT !.pc = "aborted"] ELSE drv
    /\ ga' = IdleGA
    /\ UNCHANGED <<wr, rejected, poolvars, ipc_sections, db, rs, budget, runs>>

\* variant: the retry loop does not test `success`
ExistingReturned_ignores_success ==
    /\ sch.pc = "existing"
    /\ sch.waiting
    /\ ga.caller = "sched"
    /\ ga.pc \in {"done", "failed"}
    /\ LET s0 == [sch EXCEPT !.waiting = FALSE,
                             !.results = Append(@, IF ga.pc = "done" THEN ga.out
                                                   ELSE "raised")]
           s1 == IF ga.pc = "done"
                 THEN IF ga.out = "True"
                      THEN [s0 EXCEPT !.did_work = TRUE, !.retries = @ + 1]
                      ELSE [s0 EXCEPT !.did_work = TRUE, !.retries = @ + 1]
                 ELSE IF ga.exc.type = "SystemExit"
                      THEN [s0 EXCEPT !.aborted = TRUE, !.pc = "raised"]
                      ELSE [s0 EXCEPT !.retries = @ + 1]
           again == s1.pc = "existing" /\ ~s1.success /\ s1.retries < max_retries_per_case
       IN  /\ sch' = IF again \/ s1.pc # "existing" THEN s1
                     ELSE Settle([s1 EXCEPT !.k = @ + 1, !.success = FALSE, !.retries = 0])
           /\ mem' = IF again THEN mem ELSE NoDict
           /\ drv' = IF s1.pc = "raised" THEN [drv EXCEPT !.pc = "aborted"] ELSE drv
    /\ ga' = IdleGA
    /\ UNCHANGED <<wr, rejected, poolvars, ipc_sections, db, rs, budget, runs>>

\* lines 310-330 and 343-363
ExistingReturned ==
    /\ sch.pc = "existing"
    /\ sch.waiting
    /\ ga.caller = "sched"
    /\ ga.pc \in {"done", "failed"}
    /\ LET s0 == [sch EXCEPT !.waiting = FALSE,
                             !.results = Append(@, IF ga.pc = "done" THEN ga.out
                                                   ELSE "raised")]
           s1 == IF ga.pc = "done"
                 THEN IF ga.out = "True"
                      THEN [s0 EXCEPT !.success = TRUE, !.did_work = TRUE]
                      ELSE [s0 EXCEPT !.did_work = TRUE, !.retries = @ + 1]
                 ELSE IF ga.exc.type = "SystemExit"
                      THEN [s0 EXCEPT !.aborted = TRUE, !.pc = "raised"]
                      ELSE [s0 EXCEPT !.retries = @ + 1]
           again == s1.pc = "existing" /\ ~s1.success /\ s1.retries < max_retries_per_case
       IN  /\ sch' = IF again \/ s1.pc # "existing" THEN s1
                     ELSE Settle([s1 EXCEPT !.k = @ + 1, !.success = FALSE, !.retries = 0])
           /\ mem' = IF again THEN mem ELSE NoDict
           /\ drv' = IF s1.pc = "raised" THEN [drv EXCEPT !.pc = "aborted"] ELSE drv
    /\ ga' = IdleGA
    /\ UNCHANGED <<wr, rejected, poolvars, ipc_sections, db, rs, budget, runs>>

\* variant: the resolved cases are counted as they were when the pass began,
\* before the existing cases were resumed
Recount_stale ==
    /\ sch.pc = "recount"
    /\ LET resumed == Range(sch.details_only) \cup Range(sch.in_progress)
           n == Len(SelectSeq(IdsWhere(db, sch.section, {"resolved"}),
                              LAMBDA id : id \notin resumed))
       IN  sch' = [sch EXCEPT !.resolved_count = n, !.i = n,
                              !.success = FALSE, !.retries = 0,
                              !.pc = IF n < resolved_target THEN "new" ELSE "end"]
    /\ UNCHANGED <<wr, rejected, poolvars, ipc_sections, db, drv, rs, ga, mem, budget, runs>>

\* lines 365-370
Recount ==
    /\ sch.pc = "recount"
    /\ LET n == count_documents(db, sch.section, {"resolved"})
       IN  sch' = [sch EXCEPT !.resolved_count = n, !.i = n,
                              !.success = FALSE, !.retries = 0,
                              !.pc = IF n < resolved_target THEN "new" ELSE "end"]
    /\ UNCHANGED <<wr, rejected, poolvars, ipc_sections, db, drv, rs, ga, mem, budget, runs>>

\* lines 370-378: the wrapped run_single_case is called
GenerateNewCase ==
    /\ sch.pc = "new"
    /\ ~sch.waiting
    /\ rs' = [IdleRS EXCEPT !.pc = "start", !.section = sch.section]
    /\ sch' = [sch EXCEPT !.waiting = TRUE]
    /\ UNCHANGED <<wr, rejected, poolvars, ipc_sections, db, drv, ga, mem, budget, runs>>

\* lines 379-388
NewCaseReturned ==
    /\ sch.pc = "new"
    /\ sch.waiting
    /\ rs.pc \in {"done", "failed"}
    /\ LET s0 == [sch EXCEPT !.waiting = FALSE]
       IN  sch' = IF rs.pc = "done"
                  THEN [s0 EXCEPT !.did_work = TRUE, !.retries = 0, !.i = @ + 1,
                                  !.pc = IF s0.i + 1 < resolved_target THEN "new" ELSE "end"]
                  ELSE [s0 EXCEPT !.retries = @ + 1,
                                  !.pc = IF s0.retries + 1 < max_retries_per_case
                                         THEN "new" ELSE "end"]
    /\ rs' = IdleRS
    /\ UNCHANGED <<wr, rejected, poolvars, ipc_sections, db, drv, ga, mem, budget, runs>>

\* lines 390-393, and the return to run_pipeline
EndSection ==
    /\ sch.pc = "end"
    /\ sch' = [sch EXCEPT !.pc = "idle"]
    /\ drv' = [drv EXCEPT !.k = @ + 1]
    /\ UNCHANGED <<wr, rejected, poolvars, ipc_sections, db, rs, ga, mem, budget, runs>>

(***************************************************************************)
(* run_pipeline (lines 396-429).                                           *)
(***************************************************************************)
Incomplete(database, section) ==
    count_documents(database, section, {"details-only", "in-progress"})

\* list.sort(key=count, reverse=True): stable, the highest count first
RECURSIVE SortByCountDesc(_, _)
SortByCountDesc(secs, database) ==
    IF secs = << >> THEN << >>
    ELSE LET best == CHOOSE i \in DOMAIN secs :
                       /\ \A j \in DOMAIN secs :
                             Incomplete(database, secs[j]) <= Incomplete(database, secs[i])
                       /\ \A j \in 1..(i - 1) :
                             Incomplete(database, secs[j]) < Incomplete(database, secs[i])
         IN  <<secs[best]>> \o
             SortByCountDesc(SubSeq(secs, 1, best - 1) \o SubSeq(secs, best + 1, Len(secs)),
                             database)

\* variant: the sections with incomplete cases are left in configured order
SectionOrder_unsorted(secs, database) ==
    LET first == SelectSeq(secs, LAMBDA x : Incomplete(database, x) > 0)
        remaining == SelectSeq(secs, LAMBDA x : x \notin Range(first))
    IN  first \o remaining

SectionOrder(secs, database) ==
    LET first == SortByCountDesc(SelectSeq(secs, LAMBDA x : Incomplete(database, x) > 0),
                                 database)
        remaining == SelectSeq(secs, LAMBDA x : x \notin Range(first))
    IN  first \o remaining

\* a process start (llm_manager and pipeline are imported) and lines 396-412
StartPipeline ==
    /\ drv.pc \in {"idle", "done", "aborted", "killed"}
    /\ runs < MaxRuns
    /\ runs' = runs + 1
    /\ pool' = init_pool
    /\ drv' = [pc |-> "running", order |-> SectionOrder(ipc_sections, db), k |-> 1,
               processed |-> << >>,
               count0 |-> [x \in DOMAIN ipc_sections |-> Incomplete(db, ipc_sections[x])]]
    /\ sch' = IdleSch
    /\ rs' = IdleRS
    /\ ga' = IdleGA
    /\ mem' = NoDict
    /\ UNCHANGED <<wr, rejected, groq_models, groq_api_keys, calls, last_op, ipc_sections, db, budget>>

\* lines 427-429
EndPipeline ==
    /\ drv.pc = "running"
    /\ sch.pc = "idle"
    /\ drv.k > Len(drv.order)
    /\ drv' = [drv EXCEPT !.pc = "done"]
    /\ UNCHANGED <<wr, rejected, poolvars, ipc_sections, db, sch, rs, ga, mem, budget, runs>>

\* the process is interrupted (killed, KeyboardInterrupt): whatever it held in
\* memory is gone, the collection keeps what was written
Interrupt ==
    /\ drv.pc = "running"
    /\ runs < MaxRuns
    /\ drv' = [IdleDrv EXCEPT !.pc = "killed"]
    /\ sch' = IdleSch
    /\ rs' = IdleRS
    /\ ga' = IdleGA
    /\ mem' = NoDict
    /\ pool' = init_pool
    /\ UNCHANGED <<wr, rejected, groq_models, groq_api_keys, calls, last_op, ipc_sections, db, budget, runs>>

PipeIdle ==
    /\ drv = IdleDrv
    /\ sch = IdleSch
    /\ rs = IdleRS
    /\ ga = IdleGA
    /\ mem = NoDict
    /\ runs = 0
    /\ wr = IdleWr

\* the first process start on an empty collection
Init ==
    /\ \E nm \in 1..PipeMaxModels : groq_models = SubSeq(ModelNames, 1, nm)
    /\ \E nk \in 1..PipeMaxKeys : groq_api_keys = SubSeq(KeyNames, 1, nk)
    /\ pool = init_pool
    /\ calls = << >>
    /\ last_op = LastOp("init")
    /\ \E n \in 1..MaxSections : ipc_sections = [i \in 1..n |-> i]
    /\ db = << >>
    /\ rejected = << >>
    /\ budget = MaxFaults
    /\ PipeIdle

StageActions ==
    \/ PlaintiffOpening \/ DefendantOpening
    \/ PlaintiffArgument \/ DefendantCounter
    \/ PlaintiffClosing \/ DefendantClosing
    \/ MarkResolved
    \/ RetryArguments

Next ==
    \/ StartPipeline \/ StartSection
    \/ ProcessExisting \/ ExistingReturned
    \/ Recount
    \/ GenerateNewCase \/ RunSingleCase \/ SingleCaseReturned \/ RetrySingleCase
    \/ NewCaseReturned
    \/ EndSection \/ EndPipeline
    \/ Interrupt
    \/ StageActions

Spec == Init /\ [][Next]_vars

(***************************************************************************)
(* A run that starts on a collection left by earlier runs: every section   *)
(* holds resolved cases and possibly cases that earlier runs left          *)
(* in-progress (here: all but the defendant closing stored).               *)
(***************************************************************************)
PlaintiffFull ==
    <<Statement("opening", 0, "argument"), Statement("argument", 1, "argument"),
      Statement("argument", 2, "argument"), Statement("closing", 0, "argument")>>

DefendantFull ==
    <<Statement("opening", 0, "argument"), Statement("counter", 1, "argument"),
      Statement("counter", 2, "argument"), Statement("closing", 0, "argument")>>

StoredDoc(section, status) ==
    CASE status = "resolved" ->
            [section |-> section, status |-> status, has_args |-> TRUE,
             plaintiff_arguments |-> PlaintiffFull, defendant_arguments |-> DefendantFull]
      [] OTHER ->
            [section |-> section, status |-> "in-progress", has_args |-> TRUE,
             plaintiff_arguments |-> PlaintiffFull,
             defendant_arguments |-> SubSeq(DefendantFull, 1, 3)]

Profiles == {"complete", "one left", "two left", "short"}

ProfileDocs(section, profile) ==
    LET r == StoredDoc(section, "resolved")
    IN  CASE profile = "complete" -> <<r, r, r>>
          [] profile = "one left" -> <<r, StoredDoc(section, "in-progress"), r, r>>
          [] profile = "two left" -> <<StoredDoc(section, "in-progress"), r, r,
                                       StoredDoc(section, "in-progress"), r>>
          [] OTHER                -> <<r, r>>

RECURSIVE Store(_, _)
Store(f, n) == IF n = 0 THEN << >> ELSE Store(f, n - 1) \o ProfileDocs(n, f[n])

InitStore ==
    /\ groq_models = SubSeq(ModelNames, 1, PipeMaxModels)
    /\ groq_api_keys = SubSeq(KeyNames, 1, PipeMaxKeys)
    /\ pool = init_pool
    /\ calls = << >>
    /\ last_op = LastOp("init")
    /\ ipc_sections = [i \in 1..StoreSections |-> i]
    /\ \E f \in [1..StoreSections -> Profiles] : db = Store(f, StoreSections)
    /\ rejected = [i \in 1..Len(db) |-> NoStage]
    /\ budget = StoreFaults
    /\ drv = IdleDrv /\ sch = IdleSch /\ rs = IdleRS /\ ga = IdleGA
    /\ mem = NoDict /\ wr = IdleWr
    /\ runs = MaxRuns - 1

\* one run, not interrupted
NextStore ==
    \/ StartPipeline \/ StartSection
    \/ ProcessExisting \/ ExistingReturned
    \/ Recount
    \/ GenerateNewCase \/ RunSingleCase \/ SingleCaseReturned \/ RetrySingleCase
    \/ NewCaseReturned
    \/ EndSection \/ EndPipeline
    \/ StageActions

SpecStore == InitStore /\ [][NextStore]_vars

\* the same run with progress: the process is not killed, every awaited
\* call returns or raises, every sleep ends
SpecStoreLive == InitStore /\ [][NextStore]_vars /\ WF_vars(NextStore)

(***************************************************************************)
(* retry_with_backoff on its own (lines 65-123): the wrapper around any    *)
(* one wrapped function, every attempt of which returns or raises one of   *)
(* the errors the except branch tells apart.                               *)
(***************************************************************************)
WrappedErrors == {Exc("APIError", m) : m \in LLMErrors \cup JsonErrors}

CurrentPair(p) == [model |-> p.current_groq_model, key |-> p.current_groq_key]

OtherUsableModels(p) ==
    Len(SelectSeq(p.available_groq_models, LAMBDA m : m # p.current_groq_model))

\* line 66-68: wrapper(*args, **kwargs) is called
WrapperCall ==
    /\ wr.pc \in {"idle", "returned", "raised"}
    /\ wr.n < MaxWrapped
    /\ wr' = [IdleWr EXCEPT !.pc = "running", !.n = wr.n + 1]
    /\ UNCHANGED <<poolvars, ipc_sections, db, drv, sch, rs, ga, mem, budget, runs, rejected>>

\* line 70: the attempt returns
AttemptReturns ==
    /\ wr.pc = "running"
    /\ wr' = [wr EXCEPT !.pc = "returned", !.executions = @ + 1,
                        !.pairs = Append(@, CurrentPair(pool))]
    /\ UNCHANGED <<poolvars, ipc_sections, db, drv, sch, rs, ga, mem, budget, runs, rejected>>

\* lines 71-120: the attempt raises e and the except branch handles it
AttemptRaises ==
    /\ wr.pc = "running"
    /\ \E e \in WrappedErrors :
        LET h == retry_handler(wr.attempt, wr.delay, e, pool)
        IN  /\ pool' = h.pool
            /\ wr' = [wr EXCEPT
                        !.pc = IF h.next = "retry" THEN "running" ELSE "raised",
                        !.attempt = IF h.next = "retry" THEN @ + 1 ELSE @,
                        !.delay = h.delay, !.exc = h.exc,
                        !.executions = @ + 1,
                        !.pairs = Append(@, CurrentPair(pool)),
                        !.last = e, !.failed = wr.attempt,
                        !.others = OtherUsableModels(pool),
                        !.ran = h.ran]
    /\ UNCHANGED <<groq_models, groq_api_keys, calls, last_op,
                   ipc_sections, db, drv, sch, rs, ga, mem, budget, runs, rejected>>

NextRetry == WrapperCall \/ AttemptReturns \/ AttemptRaises
SpecRetry == PoolInit /\ [][NextRetry]_vars

(***************************************************************************)
(* Properties of the credential pool.                                      *)
(***************************************************************************)
\* the keys still usable for model m: its tracked list, or all keys when
\* the model has no tracked list
UsableKeys(p, m) ==
    IF p.has_model_keys /\ m \in DOMAIN p.model_keys
    THEN Range(p.model_keys[m]) ELSE Range(groq_api_keys)

Removed(p) == Range(groq_models) \ Range(p.available_groq_models)

RotateStep == /\ Len(calls') = Len(calls) + 1
              /\ last_op'.op \in {"rotate_key", "rotate_model"}

\* C4: as long as pool exhaustion has not been raised, after any sequence of
\* rotate_key, rotate_model and reset_rotation_counters calls the current key
\* is one of the keys still usable for the current model (and of the list the
\* pool holds as available).
C4_CurrentKeyUsable ==
    ~Raised("RuntimeError") =>
        /\ pool.current_groq_key \in UsableKeys(pool, pool.current_groq_model)
        /\ pool.current_groq_key \in Range(pool.available_groq_keys)
        /\ Range(pool.available_groq_keys) = UsableKeys(pool, pool.current_groq_model)

\* a key was removed for the current model, after a delegated model rotation
C4_Witness ==
    /\ ~Raised("RuntimeError")
    /\ \E i \in DOMAIN calls : calls[i].ran = <<"rotate_key", "rotate_model">>
    /\ UsableKeys(pool, pool.current_groq_model) # Range(groq_api_keys)
    /\ pool.current_groq_model # groq_models[1]

C6_ResetIsFresh ==
    last_op.op = "reset_rotation_counters" => pool = init_pool

\* a reset of a pool that had raised exhaustion, had its model set by hand
\* and tracked keys per model
C6_Witness ==
    /\ last_op.op = "reset_rotation_counters"
    /\ last_op.raised /\ last_op.set /\ last_op.tracked

OnlyRotateKey == \A i \in DOMAIN calls : calls[i].op = "rotate_key"

TwoByTwo == groq_models = <<"A", "B">> /\ Len(groq_api_keys) = 2

\* C10 as stated: with models [A, B] and 2 keys the first two rotate_key
\* calls stay on A and the third one rotates the model.
C10_Original ==
    (TwoByTwo /\ OnlyRotateKey /\ calls # << >>) =>
        /\ Len(calls) \in {1, 2} =>
              /\ pool.current_groq_model = "A"
              /\ calls[Len(calls)].ran = <<"rotate_key">>
        /\ Len(calls) = 3 =>
              /\ calls[3].ran = <<"rotate_key", "rotate_model">>
              /\ pool.current_groq_model = "B"
              /\ pool.available_groq_keys = groq_api_keys

\* C10 amended: with models [A, B] and 2 keys the first rotate_key call stays
\* on A (moving to the second key), the second call finds no key left for A
\* and rotates the model: B is current with both keys usable; the third call
\* stays on B.
C10_SecondCallRotatesModel ==
    (TwoByTwo /\ OnlyRotateKey /\ calls # << >>) =>
        /\ Len(calls) = 1 =>
              /\ pool.current_groq_model = "A"
              /\ pool.current_groq_key = "k2"
              /\ calls[1].ran = <<"rotate_key">>
        /\ Len(calls) = 2 =>
              /\ calls[2].ran = <<"rotate_key", "rotate_model">>
              /\ calls[2].exc = "none"
              /\ pool.current_groq_model = "B"
              /\ pool.available_groq_keys = groq_api_keys
              /\ UsableKeys(pool, "B") = Range(groq_api_keys)
              /\ pool.current_groq_key = "k1"
        /\ Len(calls) = 3 =>
              /\ calls[3].ran = <<"rotate_key">>
              /\ pool.current_groq_model = "B"
              /\ pool.current_groq_key = "k2"

C10_Witness ==
    /\ TwoByTwo /\ OnlyRotateKey /\ Len(calls) = 3
    /\ pool.current_groq_model = "B"

\* the model was current at some time since initialisation or the last reset
WasCurrent(m) ==
    \/ m = groq_models[1]
    \/ \E i \in DOMAIN calls : calls[i].model = m

\* C21: key exhaustion is tracked per model.  A call in which rotate_key ran
\* leaves the usable keys of every model other than the one that was current
\* unchanged; and a call that moves the pool to a model that was never
\* current finds all configured keys usable for it, the first of them current.
C21_KeysTrackedPerModel ==
    [][ RotateStep =>
          LET c == calls'[Len(calls')]
              A == pool.current_groq_model
              B == pool'.current_groq_model
          IN  /\ "rotate_key" \in Range(c.ran) =>
                    \A m \in Range(groq_models) \ {A} :
                        UsableKeys(pool', m) = UsableKeys(pool, m)
              /\ (B # A /\ ~WasCurrent(B)) =>
                    /\ UsableKeys(pool', B) = Range(groq_api_keys)
                    /\ pool'.available_groq_keys = groq_api_keys
                    /\ pool'.current_groq_key = groq_api_keys[1] ]_vars

\* k1 was rotated away while A was current, then the pool moved to B, never
\* current before: k1 is usable for B and still not for A
C21_Witness ==
    /\ Len(calls) = 2
    /\ calls[1].op = "rotate_key" /\ calls[1].ran = <<"rotate_key">>
    /\ calls[1].model = "A"
    /\ calls[2].op = "rotate_model" /\ calls[2].exc = "none"
    /\ pool.current_groq_model = "B"
    /\ "k1" \notin UsableKeys(pool, "A")
    /\ "k1" \in UsableKeys(pool, "B")
    /\ pool.available_groq_keys = groq_api_keys

Index(seq, x) == CHOOSE i \in DOMAIN seq : seq[i] = x

\* the usable models of pool p, as a set
Usable(p) == Range(p.available_groq_models)

\* a direct rotate_model call
RotateModelStep == /\ Len(calls') = Len(calls) + 1
                   /\ last_op'.op = "rotate_model"

\* what a rotate_model call does to the usable models and, when one
\* remains, which model and key it makes current
RotateModelEffect ==
    LET c == calls'[Len(calls')]
        left == pool.current_groq_model
        remaining == Usable(pool) \ {left}
    IN  /\ Usable(pool') = remaining
        /\ remaining # {} =>
              /\ c.exc = "none"
              /\ pool'.current_groq_model \in remaining
              /\ \A m \in remaining :
                    Index(groq_models, pool'.current_groq_model) <= Index(groq_models, m)
              /\ pool'.current_groq_key \in UsableKeys(pool', pool'.current_groq_model)
        /\ remaining = {} =>
              /\ c.exc = "RuntimeError"
              /\ pool'.current_groq_model = left

\* C23 as stated: rotate_model removes the current model from the usable
\* models; if one remains the earliest of them in configured order becomes
\* current with one of its usable keys, else pool exhaustion is raised; and
\* it raises exactly when the model left was the last usable one.
C23_Original ==
    [][ RotateModelStep =>
          /\ RotateModelEffect
          /\ calls'[Len(calls')].exc # "none"
                <=> Usable(pool) = {pool.current_groq_model} ]_vars

\* C23 amended: the same, and it raises exactly when no usable model
\* remains after the removal: the model left was the last usable one, or no
\* model was usable any more (a call after exhaustion was raised).
C23_RotateModelPicksEarliest ==
    [][ RotateModelStep =>
          /\ RotateModelEffect
          /\ calls'[Len(calls')].exc # "none"
                <=> Usable(pool) \subseteq {pool.current_groq_model} ]_vars

\* rotate_model succeeded from B with A removed before and C remaining, and
\* a rotate_model call after exhaustion raised again
C23_Witness ==
    /\ Len(groq_models) = 3
    /\ Len(calls) = 4
    /\ \A i \in 1..4 : calls[i].op = "rotate_model"
    /\ calls[2].exc = "none" /\ calls[2].model = "C"
    /\ calls[3].exc = "RuntimeError"
    /\ calls[4].exc = "RuntimeError"
    /\ Usable(pool) = {}

\* the calls of test_rotation.py lines 33-37 since the last reset (or the
\* module initialisation, which leaves the same pool)
FullModelCycle ==
    /\ Len(groq_models) = 3
    /\ Len(groq_api_keys) >= 2
    /\ Len(calls) = 4
    /\ calls[1].op = "rotate_key"
    /\ \A i \in 2..4 : calls[i].op = "rotate_model"

\* C25: with three models, after a reset, one rotate_key and three
\* rotate_model calls, every call has succeeded and the first model is
\* current again, the key rotated away at the start still not usable for it.
C25_FullCycleReturnsToFirst ==
    FullModelCycle =>
        /\ \A i \in 1..4 : calls[i].exc = "none"
        /\ pool.current_groq_model = groq_models[1]
        /\ groq_api_keys[1] \notin UsableKeys(pool, groq_models[1])
        /\ groq_api_keys[1] \notin Range(pool.available_groq_keys)

\* the executions of rotate_key and rotate_model since initialisation or
\* the last reset, as (call, position in the call) pairs
RotationExecutions ==
    {x \in (DOMAIN calls) \X {1, 2} :
        /\ x[2] \in DOMAIN calls[x[1]].ran
        /\ calls[x[1]].ran[x[2]] \in {"rotate_key", "rotate_model"}}

\* C32: rotation_count equals the number of rotate_key executions plus the
\* number of rotate_model executions since initialisation or the last reset,
\* a rotate_model reached from rotate_key and a rotate_model that raised
\* exhaustion included; so it never decreases between resets.
C32_RotationCountCountsExecutions ==
    pool.rotation_count = Cardinality(RotationExecutions)

\* a rotate_key that went on to rotate_model and a rotate_model that raised
\* exhaustion are among the executions counted
C32_Witness ==
    /\ \E i \in DOMAIN calls : calls[i].ran = <<"rotate_key", "rotate_model">>
    /\ \E i \in DOMAIN calls : calls[i].op = "rotate_model" /\ calls[i].exc = "RuntimeError"
    /\ pool.rotation_count = Len(calls) + 1
    /\ pool.rotation_count >= 4

\* the usable (model, key) pairs of pool p
UsablePairs(p) == {<<m, k>> \in Usable(p) \X Range(groq_api_keys) : k \in UsableKeys(p, m)}

\* C33: once rotate_model has raised pool exhaustion, every later rotate_key
\* and rotate_model call raises pool exhaustion too and leaves the current
\* (model, key) pair as it was, and no call makes a pair usable again, until
\* the reset.
C33_ExhaustionIsAbsorbing ==
    [][ (Raised("RuntimeError") /\ RotateStep) =>
          /\ calls'[Len(calls')].exc = "RuntimeError"
          /\ CurrentPair(pool') = CurrentPair(pool)
          /\ UsablePairs(pool') \subseteq UsablePairs(pool) ]_vars

\* the i-th pair (from 0) in configured order of models and, within a
\* model, of keys
PairAt(i) == [model |-> groq_models[(i \div Len(groq_api_keys)) + 1],
              key   |-> groq_api_keys[(i % Len(groq_api_keys)) + 1]]

AllPairs == Len(groq_models) * Len(groq_api_keys)

\* C36: from a new or reset pool with M models and K keys, under rotate_key
\* calls only, the current pair goes through the M*K pairs in configured
\* order, each once: the i-th call (i < M*K) succeeds and makes the i-th pair
\* after the initial one current, and the (M*K)-th call raises pool
\* exhaustion with the last pair still current.
C36_RotateKeyVisitsEveryPairOnce ==
    OnlyRotateKey =>
        \A i \in DOMAIN calls :
            /\ i < AllPairs =>
                  /\ calls[i].exc = "none"
                  /\ [model |-> calls[i].model, key |-> calls[i].key] = PairAt(i)
            /\ i = AllPairs =>
                  /\ calls[i].exc = "RuntimeError"
                  /\ [model |-> calls[i].model, key |-> calls[i].key] = PairAt(AllPairs - 1)

\* three models and three keys: the ninth rotate_key call raised exhaustion
\* on the last pair
C36_Witness ==
    /\ OnlyRotateKey
    /\ Len(groq_models) = 3 /\ Len(groq_api_keys) = 3
    /\ Len(calls) = AllPairs
    /\ calls[AllPairs].exc = "RuntimeError"
    /\ CurrentPair(pool) = [model |-> "C", key |-> "k3"]

SetModelStep == /\ Len(calls') = Len(calls) + 1
                /\ last_op'.op = "set_current_model"

\* C39: set_current_model(m) succeeds for every configured model m, also a
\* model that rotate_model has removed, and changes only the current model
\* and the model cycle; for a name that is not configured it raises
\* ValueError and changes nothing.
C39_SetCurrentModelFrame ==
    [][ SetModelStep =>
          LET c == calls'[Len(calls')]
          IN  IF c.arg \in Range(groq_models)
              THEN /\ c.exc = "none"
                   /\ pool'.current_groq_model = c.arg
                   /\ [pool' EXCEPT !.current_groq_model = pool.current_groq_model,
                                    !.model_cycle = pool.model_cycle] = pool
              ELSE /\ c.exc = "ValueError"
                   /\ pool' = pool ]_vars

\* a model that rotate_model had removed was made current by hand
C39_Witness ==
    /\ calls # << >>
    /\ LET c == calls[Len(calls)]
       IN  /\ c.op = "set_current_model" /\ c.exc = "none"
           /\ c.arg \in Removed(pool)
           /\ pool.current_groq_model = c.arg
           /\ UsableKeys(pool, c.arg) # Range(groq_api_keys)

(***************************************************************************)
(* Properties of the pipeline.                                             *)
(***************************************************************************)
IsPrefix(a, b) == Len(a) <= Len(b) /\ SubSeq(b, 1, Len(a)) = a

Docs == 1..Len(db)

Resolved(i) == db[i].status = "resolved"

\* C1: every document whose status is resolved holds exactly 4 plaintiff and
\* exactly 4 defendant statements.
C1_ResolvedHasFourEach ==
    \A i \in Docs :
        Resolved(i) => /\ Len(db[i].plaintiff_arguments) = 4
                       /\ Len(db[i].defendant_arguments) = 4

\* a case was resolved by a resumed invocation: its defendant list was one
\* short when both closings had been generated
C1_Witness ==
    \E i \in Docs : /\ Resolved(i)
                    /\ db[i].defendant_arguments[3].stage = "closing"

\* the body of generate_arguments_for_case is being executed, or has ended
InBody == ga.pc \notin {"idle"}

\* the generation call of log entry e is for a position the list already held
Regenerates(e, p0, d0) ==
    \/ e.stage = "open_p" /\ Len(p0) >= 1
    \/ e.stage = "open_d" /\ Len(d0) >= 1
    \/ e.stage = "round_p" /\ Len(p0) > e.round
    \/ e.stage = "close_p" /\ Len(p0) >= 4
    \/ e.stage = "close_d" /\ Len(d0) >= 4

\* C2: in every execution of the body of generate_arguments_for_case (first
\* call, retry by the wrapper, immediate retry by the scheduler, later run),
\* no generation call is made for a stage whose output the stored record held
\* when the execution began, and the stored lists keep what they held then as
\* a prefix.
C2_IdempotentResume ==
    InBody =>
        /\ IsPrefix(ga.start.doc_p, db[mem.id].plaintiff_arguments)
        /\ IsPrefix(ga.start.doc_d, db[mem.id].defendant_arguments)
        /\ \A k \in DOMAIN ga.log :
              ~Regenerates(ga.log[k], ga.start.doc_p, ga.start.doc_d)

\* the pool raised exhaustion in this run: rotate_model empties the usable
\* models only when it raises
ExhaustionRaised == drv.pc = "running" /\ pool.available_groq_models = << >>

GenerationCall == ga'.log # ga.log /\ ga'.log # << >>

\* C3: once rotate_model has raised pool exhaustion, the run makes no further
\* generation call, inserts no further case and starts no further section.
C3_ExhaustionIsFatal ==
    [][ ExhaustionRaised =>
          /\ ~GenerationCall
          /\ Len(db') = Len(db)
          /\ ~(sch.pc = "idle" /\ sch'.pc # "idle")
          /\ rs'.pc # "start" ]_vars

Max(a, b) == IF a >= b THEN a ELSE b

ResolvedNow(section) == count_documents(db, section, {"resolved"})

\* the pass of run_cases_for_section is over and nothing failed in it
CleanPassEnded == sch.pc = "end" /\ budget = sch.budget0

\* C7: a pass in which no generation call and no write failed inserts exactly
\* max(0, 3 - R) cases, R being the number of resolved cases of the section
\* when line 366 counts them, and ends with at least 3 resolved cases.
C7_CleanPassFillsTarget ==
    CleanPassEnded =>
        /\ sch.inserted = Max(0, resolved_target - sch.resolved_count)
        /\ sch.resolved_count = ResolvedNow(sch.section) - sch.inserted
        /\ ResolvedNow(sch.section) >= resolved_target

\* a clean pass that found 2 resolved cases and inserted 1
C7_Witness ==
    /\ CleanPassEnded
    /\ sch.resolved_count = 2
    /\ sch.inserted = 1

StageOrder(side) ==
    IF side = "plaintiff"
    THEN <<[stage |-> "opening", round |-> 0], [stage |-> "argument", round |-> 1],
           [stage |-> "argument", round |-> 2], [stage |-> "closing", round |-> 0]>>
    ELSE <<[stage |-> "opening", round |-> 0], [stage |-> "counter", round |-> 1],
           [stage |-> "counter", round |-> 2], [stage |-> "closing", round |-> 0]>>

Stages(list) == [k \in DOMAIN list |-> [stage |-> list[k].stage, round |-> list[k].round]]

\* C8: in every resolved document both lists are in stage order: opening,
\* round 1, round 2, closing.
C8_ResolvedInStageOrder ==
    \A i \in Docs :
        Resolved(i) => /\ Stages(db[i].plaintiff_arguments) = StageOrder("plaintiff")
                       /\ Stages(db[i].defendant_arguments) = StageOrder("defendant")

LogStages == [k \in DOMAIN ga.log |-> ga.log[k].stage]

IsDailyQuota(e) == {"rate limit", "tokens per day"} \subseteq ErrorTokens(e.msg)

IsCapacity(e) ==
    /\ "rate limit" \notin ErrorTokens(e.msg)
    /\ ErrorTokens(e.msg) \cap {"503", "over capacity"} # {}

\* the except branch has just handled the failure of the last execution
JustHandled == wr.last # NoExc /\ wr.executions = wr.failed + 1

Count(seq, x) == Len(SelectSeq(seq, LAMBDA y : y = x))

\* C11: when the first attempt fails with a daily-quota error and another
\* usable model exists, the except branch calls rotate_model once and
\* rotate_key not at all, the wrapper goes on to a second attempt, and that
\* attempt runs with the new current model.
C11_DailyQuotaRotatesModelOnce ==
    (wr.last # NoExc /\ wr.failed = 0 /\ IsDailyQuota(wr.last) /\ wr.others >= 1) =>
        /\ wr.ran = <<"rotate_model">>
        /\ wr.pc # "raised"
        /\ CurrentPair(pool).model # wr.pairs[1].model
        /\ CurrentPair(pool).model \in Range(pool.available_groq_models)
        /\ wr.executions >= 2 => wr.pairs[2].model = CurrentPair(pool).model

\* the second attempt ran on another model than the first
C11_Witness ==
    /\ wr.last # NoExc /\ wr.failed = 0 /\ IsDailyQuota(wr.last) /\ wr.others >= 1
    /\ wr.executions = 2
    /\ wr.pairs[2].model # wr.pairs[1].model

\* C12: an invocation of the wrapper executes the wrapped function at most 5
\* times; while it runs, fewer than 5 executions have failed, and it ends
\* returning (no exception) or raising.
C12_AtMostFiveExecutions ==
    /\ wr.executions <= max_retries
    /\ wr.pc = "running" => wr.executions = wr.attempt /\ wr.attempt < max_retries
    /\ wr.pc = "returned" => wr.exc = NoExc
    /\ wr.pc = "raised" => wr.exc # NoExc

\* the fifth execution failed and the wrapper raised
C12_Witness == wr.pc = "raised" /\ wr.executions = max_retries

\* C13: when all 5 attempts failed, the exception that reaches the caller is
\* the error of the last attempt (an exhaustion of the pool raised by the
\* rotation itself aside).
C13_LastErrorSurfaces ==
    (wr.pc = "raised" /\ wr.executions = max_retries /\ wr.exc.type # "RuntimeError") =>
        wr.exc = wr.last

\* C20 as stated: handling a 503 / over capacity failure calls no rotation,
\* whatever the attempt number, and the retry runs with the same pair.
C20_Original ==
    (JustHandled /\ IsCapacity(wr.last)) =>
        /\ wr.ran = << >>
        /\ wr.pc = "running" => CurrentPair(pool) = wr.pairs[Len(wr.pairs)]

\* C20: handling a 503 / over capacity failure of the first or second attempt
\* calls no rotation and the retry runs with the same pair and a doubled
\* delay; from the third attempt on the except branch calls rotate_key once
\* (which may go on to rotate_model), and rotate_model never directly.
C20_NoRotationBeforeThirdAttempt ==
    (JustHandled /\ IsCapacity(wr.last)) =>
        IF wr.failed < 2
        THEN /\ wr.ran = << >>
             /\ wr.pc = "running"
             /\ CurrentPair(pool) = wr.pairs[Len(wr.pairs)]
        ELSE /\ wr.ran # << >>
             /\ wr.ran[1] = "rotate_key"
             /\ Count(wr.ran, "rotate_key") = 1

\* the third attempt failed with a 503 and the retry runs with another pair
C20_Witness ==
    /\ JustHandled /\ IsCapacity(wr.last)
    /\ wr.failed = 2 /\ wr.pc = "running"
    /\ CurrentPair(pool) # wr.pairs[Len(wr.pairs)]

(***************************************************************************)
(* Properties of the stage engine: validity, retry of a rejected stage.    *)
(***************************************************************************)
\* non-empty and free of the fallback phrases
Clean(text) == text # "" /\ PatternsIn(text) \cap fallback_patterns = {}

AllClean(list) == \A k \in DOMAIN list : Clean(list[k].text)

\* C14: every statement in a plaintiff or defendant list, of the running
\* invocation, of the case dict or of a stored document, is non-empty and
\* free of the fallback phrases.
C14_OnlyValidAppended ==
    /\ AllClean(ga.plaintiff_args) /\ AllClean(ga.defendant_args)
    /\ AllClean(mem.plaintiff_arguments) /\ AllClean(mem.defendant_arguments)
    /\ \A i \in Docs : /\ AllClean(db[i].plaintiff_arguments)
                       /\ AllClean(db[i].defendant_arguments)

\* an invocation that had appended statements ended on a rejected output
C14_Witness ==
    /\ ga.pc = "done" /\ ga.out = "False"
    /\ rejected[mem.id] # NoStage
    /\ ga.plaintiff_args # << >> /\ ga.defendant_args # << >>

NewEntry == ga'.log[Len(ga'.log)]

\* C15: while a stage of a case has a rejected output and no accepted one,
\* every generation call for the case is for that stage (same stage, same
\* round): the next invocation begins with it and no other stage is generated
\* before.
C15_RejectedStageRetried ==
    [][ (GenerationCall /\ rejected[mem.id] # NoStage) =>
            [stage |-> NewEntry.stage, round |-> NewEntry.round] = rejected[mem.id] ]_vars

(***************************************************************************)
(* Properties of the checkpoints and of the order of a pass.               *)
(***************************************************************************)
Stored(id) == <<db[id].plaintiff_arguments, db[id].defendant_arguments>>

InMemory == <<ga.plaintiff_args, ga.defendant_args>>

\* the last accepted output of the running invocation was written
LastWriteSucceeded ==
    \E k \in DOMAIN ga.log :
        /\ ga.log[k].saved = "yes"
        /\ \A j \in DOMAIN ga.log : j > k => ga.log[j].saved = "none"

NoWriteFailed == \A k \in DOMAIN ga.log : ga.log[k].saved # "failed"

\* C16: every accepted output is written with both full lists before the
\* next generation call: once the write of the last accepted output has
\* succeeded the stored lists are the lists in memory, and in an invocation
\* that began with the stored lists and had no failed write they are so at
\* every generation call.
C16_CheckpointPerStage ==
    InBody =>
        /\ LastWriteSucceeded => Stored(mem.id) = InMemory
        /\ (NoWriteFailed /\ <<ga.start.p, ga.start.d>> = <<ga.start.doc_p, ga.start.doc_d>>)
              => Stored(mem.id) = InMemory

\* a write failed and the write of the next accepted output stored everything
C16_Witness ==
    /\ InBody
    /\ \E k \in DOMAIN ga.log :
          /\ ga.log[k].saved = "failed"
          /\ k + 1 \in DOMAIN ga.log /\ ga.log[k + 1].saved = "yes"
    /\ LastWriteSucceeded
    /\ Stored(mem.id) = InMemory

Rank(kind) ==
    CASE kind = "details-only" -> 1
      [] kind = "in-progress"  -> 2
      [] kind = "new"          -> 3
      [] OTHER                 -> 0

\* C17: in a pass, the invocations on cases that were details-only when the
\* pass began come before those on cases that were in-progress, and both
\* before any insertion of a new case.
C17_PassOrder ==
    \A k \in DOMAIN sch.order :
        /\ Rank(sch.order[k]) > 0
        /\ k > 1 => Rank(sch.order[k - 1]) < Rank(sch.order[k])

\* a pass went through all three kinds of work
C17_Witness == sch.order = <<"details-only", "in-progress", "new">>

(***************************************************************************)
(* Properties of a pass and of a run over several sections.                *)
(***************************************************************************)
SnapshotCases == Range(sch.details_only) \cup Range(sch.in_progress)

\* C18: failures on an existing case never end the pass or the run: when the
\* pass comes to line 366 every case of its snapshot has been handed to the
\* stage engine, no pass and no run is aborted, and a run that ends has
\* handed every configured section to run_cases_for_section.
C18_FailureAbandonsOnlyTheCase ==
    /\ sch.pc \in {"recount", "new", "end"} => SnapshotCases \subseteq sch.invoked
    /\ ~sch.aborted /\ sch.pc # "raised" /\ drv.pc # "aborted"
    /\ drv.pc = "done" => Range(drv.processed) = Range(ipc_sections)

\* the first section of the run had two in-progress cases; the pass gave up
\* the first of them, resolved the second, and the run went on to the end of
\* the next section
C18_Witness ==
    /\ Len(drv.processed) = 2
    /\ sch.pc = "end" /\ sch.section = drv.processed[2]
    /\ drv.count0[drv.processed[1]] = 2
    /\ count_documents(db, drv.processed[1], {"in-progress"}) = 1
    /\ \E id \in Docs : /\ db[id].section = drv.processed[1]
                        /\ db[id].status = "in-progress"
                        /\ \A j \in 1..(id - 1) : db[j].section # db[id].section

Count0(section) == drv.count0[CHOOSE x \in DOMAIN ipc_sections : ipc_sections[x] = section]

\* C19: a run that ends has handed every configured section to
\* run_cases_for_section exactly once; at any time the sections handed over so
\* far are distinct, those that had incomplete cases when the run began come
\* before those that had none, and the former in non-increasing order of that
\* count.
C19_SectionOrder ==
    /\ \A i, j \in DOMAIN drv.processed :
          i < j => /\ drv.processed[i] # drv.processed[j]
                   /\ Count0(drv.processed[i]) >= Count0(drv.processed[j])
                   /\ Count0(drv.processed[i]) = 0 => Count0(drv.processed[j]) = 0
    /\ Range(drv.processed) \subseteq Range(ipc_sections)
    /\ drv.pc = "done" => /\ Len(drv.processed) = Len(ipc_sections)
                          /\ Range(drv.processed) = Range(ipc_sections)

\* the second configured section had more incomplete cases and went first
C19_Witness ==
    /\ drv.pc = "done"
    /\ drv.processed = <<2, 1>>
    /\ Count0(2) = 2 /\ Count0(1) = 1

(***************************************************************************)
(* Properties of the stored case and of one invocation of                  *)
(* generate_arguments_for_case.                                            *)
(***************************************************************************)
\* C22: in every stored state of a case, if the plaintiff list and the
\* defendant list both have exactly 4 entries, the status is resolved.
C22_FullListsAreResolved ==
    \A i \in Docs :
        (Len(db[i].plaintiff_arguments) = 4 /\ Len(db[i].defendant_arguments) = 4)
            => db[i].status = "resolved"

\* generate_arguments_for_case has returned and its caller has not yet
\* taken the result
Returned == ga.pc = "done" /\ mem.id \in Docs

\* C26: generate_arguments_for_case returns True if and only if the
\* invocation wrote status resolved, that is if and only if both lists have
\* exactly 4 entries after the closing stage; when it returns False the
\* stored status is not resolved.
C26_TrueIffResolvedWritten ==
    Returned =>
        /\ ga.out = "True" <=> db[mem.id].status = "resolved"
        /\ ga.out = "True" <=>
              (Len(ga.plaintiff_args) = 4 /\ Len(ga.defendant_args) = 4)

\* a generation call of the running invocation has just been made
StageStep == Len(ga'.log) = Len(ga.log) + 1

WriteFailedBefore == \E k \in DOMAIN ga.log : ga.log[k].saved = "failed"

\* C24: a failed save_progress write is not retried and raises nothing: the
\* stored document stays as it was, the accepted statement is in the lists
\* in memory and the invocation is at the next stage; and the next write
\* that succeeds stores both full lists of the memory.
C24_FailedWriteDoesNotStopCase ==
    [][ StageStep =>
          /\ NewEntry.saved = "failed" =>
                /\ db' = db
                /\ ga'.exc = NoExc
                /\ ga'.pc = AfterStage(ga.pc, ga'.plaintiff_args, ga'.defendant_args)
                /\ IsPrefix(ga.plaintiff_args, ga'.plaintiff_args)
                /\ IsPrefix(ga.defendant_args, ga'.defendant_args)
                /\ Len(ga'.plaintiff_args) + Len(ga'.defendant_args)
                      = Len(ga.plaintiff_args) + Len(ga.defendant_args) + 1
          /\ (NewEntry.saved = "yes" /\ WriteFailedBefore) =>
                /\ db'[mem.id].plaintiff_arguments = ga'.plaintiff_args
                /\ db'[mem.id].defendant_arguments = ga'.defendant_args ]_vars

\* the write of one stage failed and the same invocation went on to the
\* end: the case is stored resolved with the lists of the memory
C24_Witness ==
    /\ Returned
    /\ ga.out = "True"
    /\ WriteFailedBefore
    /\ db[mem.id].status = "resolved"
    /\ Stored(mem.id) = InMemory

\* every generation call of the running invocation returned valid text
AllValid == \A k \in DOMAIN ga.log : ga.log[k].saved # "none"

FullRun == <<[stage |-> "open_p", round |-> 0], [stage |-> "open_d", round |-> 0],
             [stage |-> "round_p", round |-> 1], [stage |-> "round_d", round |-> 1],
             [stage |-> "round_p", round |-> 2], [stage |-> "round_d", round |-> 2],
             [stage |-> "close_p", round |-> 0], [stage |-> "close_d", round |-> 0]>>

LogRounds == [k \in DOMAIN ga.log |-> [stage |-> ga.log[k].stage, round |-> ga.log[k].round]]

\* C27: an invocation on a case with two empty lists in which every
\* generation call returned valid text has made exactly the 8 calls plaintiff
\* opening, defendant opening, plaintiff round 1, defendant counter 1,
\* plaintiff round 2, defendant counter 2, plaintiff closing, defendant
\* closing, in this order, and ends with the case resolved.
C27_EightCallsThenResolved ==
    (Returned /\ ga.start.p = << >> /\ ga.start.d = << >> /\ AllValid) =>
        /\ LogRounds = FullRun
        /\ ga.out = "True"
        /\ db[mem.id].status = "resolved"

(***************************************************************************)
(* Properties of a pass of run_cases_for_section.                          *)
(***************************************************************************)
\* C28: in a pass the number of case records inserted is at most
\* max(0, 3 - R), R the resolved count recomputed after the resumption of
\* the existing cases, whatever failures and retries occur.
C28_InsertsBoundedBySlots ==
    sch.pc \in {"new", "end"} =>
        sch.inserted <= Max(0, resolved_target - sch.resolved_count)

\* the invocations of the pass on case id, by position in sch.handed
Invocations(id) == {k \in DOMAIN sch.handed : sch.handed[k] = id}

\* the existing-case loops of the pass are over
ExistingDone == sch.pc \in {"recount", "new", "end"}

\* the invocations of a pass on its existing cases, counted and ordered
ExistingCaseInvocations ==
    /\ Range(sch.handed) \subseteq SnapshotCases
    /\ \A id \in SnapshotCases :
          /\ Cardinality(Invocations(id)) <= max_retries_per_case
          /\ \A k \in Invocations(id) :
                (k \in DOMAIN sch.results /\ sch.results[k] = "True")
                    => \A j \in Invocations(id) : j <= k
          /\ \A j, k \in Invocations(id) :
                \A m \in DOMAIN sch.handed : (j < m /\ m < k) => sch.handed[m] = id
          /\ ExistingDone => Invocations(id) # {}

\* C29: in a pass each existing details-only or in-progress case is handed
\* to the wrapped generate_arguments_for_case at most 2 times, never again
\* after an invocation that returned True, never after the pass has gone on
\* to the next case, and at least once by the time the loops over the
\* existing cases are over; and a pass that is in these loops leaves them.
C29_ExistingCaseInvocations ==
    /\ []ExistingCaseInvocations
    /\ (sch.pc = "existing") ~> ExistingDone

\* a pass over two existing cases: the first was invoked twice (the first
\* invocation did not return True), the second once, returning True
C29_Witness ==
    /\ ExistingDone
    /\ Len(sch.handed) = 3
    /\ sch.handed[1] = sch.handed[2] /\ sch.handed[3] # sch.handed[1]
    /\ sch.results[1] # "True"
    /\ sch.results[3] = "True"

(***************************************************************************)
(* Properties of the error classification of retry_with_backoff.           *)
(***************************************************************************)
\* the code a message carries in its text
CarriedCode(msg) ==
    IF msg = "rate limit reached. Error code: {\"error\": {\"code\": \"rate_limit_exceeded\"}}"
    THEN "rate_limit_exceeded" ELSE ""

\* the class of a failure by its message
Class(e) ==
    LET toks == ErrorTokens(e.msg)
    IN  IF "rate limit" \in toks
        THEN IF "tokens per day" \in toks \/ CarriedCode(e.msg) = "rate_limit_exceeded"
             THEN "DailyQuotaExhausted" ELSE "ShortTermRateLimit"
        ELSE IF "503" \in toks \/ "over capacity" \in toks
        THEN "TransientCapacity"
        ELSE "Unknown"

\* the except branch handles the failure of an attempt
HandlingStep == wr.pc = "running" /\ wr'.pc \in {"running", "raised"}
                /\ wr'.executions = wr.executions + 1

\* C30: every failure is handled by the action of its class, and of that
\* class only: a daily-quota failure calls rotate_model, a short-term rate
\* limit rotate_key (also when the message mentions 503 / over capacity), a
\* transient-capacity failure doubles the delay (and rotates the key only
\* from the third attempt on), an unknown failure rotates the key or, at the
\* last attempt, is raised again; only the transient class changes the delay.
C30_ClassificationTotal ==
    [][ HandlingStep =>
          LET c == Class(wr'.last)
              ran == wr'.ran
          IN  /\ c = "DailyQuotaExhausted" =>
                    /\ ran = <<"rotate_model">>
                    /\ wr'.delay = wr.delay
              /\ c = "ShortTermRateLimit" =>
                    /\ ran # << >> /\ ran[1] = "rotate_key"
                    /\ wr'.delay = wr.delay
              /\ c = "TransientCapacity" =>
                    /\ wr'.delay = 2 * wr.delay
                    /\ wr.attempt < 2 => ran = << >>
                    /\ wr.attempt >= 2 => (ran # << >> /\ ran[1] = "rotate_key")
              /\ c = "Unknown" =>
                    /\ wr'.delay = wr.delay
                    /\ wr.attempt < max_retries - 1 => (ran # << >> /\ ran[1] = "rotate_key")
                    /\ wr.attempt = max_retries - 1 => (ran = << >> /\ wr'.exc = wr'.last) ]_vars

(***************************************************************************)
(* Properties of the pipeline's use of the credential pool.                *)
(***************************************************************************)
\* the failures of run_single_case that are no failed generation call: the
\* insert error and the False result of generate_arguments_for_case
NotAGenerationFailure(e) ==
    \/ e.type = "PyMongoError"
    \/ e = Exc("ValueError", "Failed to generate arguments for case")

\* the wrapper of run_single_case handles a failure
SingleCaseFailureHandled == rs.pc = "raised" /\ rs'.pc \in {"start", "failed"}

\* C31: an insert error in run_single_case, or an invalid response that makes
\* generate_arguments_for_case return False, causes no rotate_key and no
\* rotate_model call: the pool stays as it is.
C31_PoolMutatedOnlyByGenerationFailure ==
    [][ (SingleCaseFailureHandled /\ NotAGenerationFailure(rs.exc)) =>
          /\ rs'.rotated = << >>
          /\ pool' = pool ]_vars

(***************************************************************************)
(* Properties of the two lists and of the status of a case.                *)
(***************************************************************************)
Balanced(p, d) == Len(d) <= Len(p) /\ Len(p) <= 4

\* C34: in every state reached from new cases by any invocations of
\* generate_arguments_for_case, with valid, rejected or failing generation
\* calls, the defendant list is no longer than the plaintiff list and the
\* plaintiff list has at most 4 entries: in the stored document, in the
\* lists of the running invocation and in the dict handed to it.
C34_DefendantNeverAhead ==
    /\ \A i \in Docs : Balanced(db[i].plaintiff_arguments, db[i].defendant_arguments)
    /\ Balanced(ga.plaintiff_args, ga.defendant_args)
    /\ Balanced(mem.plaintiff_arguments, mem.defendant_arguments)

\* an invocation that resumed a case after a rejected stage has 4 plaintiff
\* and 3 defendant statements, stored and in memory
C34_Witness ==
    /\ InBody /\ mem.id \in Docs
    /\ ga.start.p # << >>
    /\ Len(ga.plaintiff_args) = 4 /\ Len(ga.defendant_args) = 3
    /\ Stored(mem.id) = InMemory
    /\ \E k \in DOMAIN ga.log : ga.log[k].stage = "close_p"

\* C35: the stored status of a case only moves forward: a resolved document
\* is never written again with another status or other lists, and an
\* in-progress document never becomes details-only.
C35_StatusMovesForward ==
    [][ \A i \in Docs :
          /\ db[i].status = "resolved" => db'[i] = db[i]
          /\ db[i].status = "in-progress" => db'[i].status # "details-only" ]_vars

\* in a second run, with a resolved case in the store, an invocation on
\* another case has written its progress
C35_Witness ==
    /\ runs = 2
    /\ InBody /\ mem.id \in Docs
    /\ \E i \in Docs : i # mem.id /\ db[i].status = "resolved"
    /\ db[mem.id].status = "in-progress"
    /\ ga.start.doc_p # << >>
    /\ \E k \in DOMAIN ga.log : ga.log[k].saved = "yes"

(***************************************************************************)
(* Properties of a returning or rejected stage.                            *)
(***************************************************************************)
\* the process is not killed in this step
NotKilled == drv'.pc # "killed"

\* C37: the wrapper hands the first result that is no exception to its
\* caller, with no further attempt, no pause and no rotation: in the step in
\* which generate_arguments_for_case returns (True or False) and from then
\* until the caller takes the result, the pool, the attempt number and the
\* delay of the wrapper stay as they are, and the body is not entered again.
C37_FirstResultReturned ==
    [][ NotKilled =>
          /\ (ga.pc # "done" /\ ga'.pc = "done") =>
                /\ pool' = pool
                /\ ga'.attempt = ga.attempt /\ ga'.delay = ga.delay
                /\ ga'.rotated = ga.rotated
          /\ ga.pc = "done" =>
                /\ pool' = pool
                /\ ga' = ga \/ ga' = IdleGA ]_vars

\* the first attempt raised and the except branch rotated; the second
\* attempt had a stage rejected and False waits for the caller, the pool as
\* the rotation left it
C37_Witness ==
    /\ Returned
    /\ ga.out = "False"
    /\ ga.attempt = 1
    /\ ga.rotated # << >>
    /\ rejected[mem.id] # NoStage

\* the generation call just made returned a text that was not accepted
RejectedStep == StageStep /\ NewEntry.saved = "none" /\ ga'.pc = "done"

\* C38: when the text of a stage is rejected the invocation returns False at
\* once: nothing is written for the stage, the two lists, the dict and the
\* stored document (status included) are as before the call, and the
\* invocation makes no further generation call.
C38_RejectedStageReturnsFalse ==
    [][ /\ RejectedStep =>
             /\ ga'.out = "False"
             /\ db' = db
             /\ mem' = mem
             /\ ga'.plaintiff_args = ga.plaintiff_args
             /\ ga'.defendant_args = ga.defendant_args
        /\ (ga.pc = "done" /\ ga.out = "False") => ~StageStep ]_vars

\* the defendant counter of round 1 of a case was rejected after three
\* accepted stages: False is returned, the document holds the
\* three statements
C38_Witness ==
    /\ Returned
    /\ ga.out = "False"
    /\ Len(ga.log) = 4
    /\ ga.log[4].stage = "round_d" /\ ga.log[4].saved = "none"
    /\ Len(db[mem.id].plaintiff_arguments) = 2
    /\ Len(db[mem.id].defendant_arguments) = 1

====
